---- MODULE Spec2Model ----
(***************************************************************************)
(* Two-phase election provider pallet (frame/election-providers).          *)
(*                                                                         *)
(* The model follows the macro-expanded pallet (expanded.rs): the storage  *)
(* items Round, CurrentPhase, SignedSubmissions, QueuedSolution, Snapshot, *)
(* the hooks on_initialize / offchain_worker, the dispatchables submit /   *)
(* submit_unsigned, and ElectionProvider::elect.  ValidateUnsigned, the    *)
(* off-chain re-run guard, the miner (mine_solution, trim_compact) and     *)
(* maximum_compact_len follow the unsigned phase's own source              *)
(* (two_phase/unsigned.rs).                                                *)
(*                                                                         *)
(* Option<T> values are sequences of length at most one: << >> is None and *)
(* <<x>> is Some(x).                                                       *)
(***************************************************************************)
EXTENDS Integers, Sequences, FiniteSets, TLC

\* ------------------------------------------------------------------------
\* Bounds of the exploration.
\* ------------------------------------------------------------------------
\* Highest block number for which on_initialize is run.
MaxBlock == 4
\* Number of parts of a Perbill in the model.
PerbillAccuracy == 100
\* Bits of TransactionPriority / TransactionLongevity in the model (the
\* runtime's are u64).
PriorityBits == 6
\* Highest block number handed to set_check_offchain_execution_status on
\* its own.
MaxNow == 31
\* Highest voter count and highest weight handed to maximum_compact_len.
MaxVoters == 5
MaxWeight == 4
ScoreBits == 6
TrimVoters == 3
MaxStake == 2

\* ------------------------------------------------------------------------
\* Runtime configuration (the Config trait's associated Get<_> types).
\* ------------------------------------------------------------------------
SignedPhase == 2
UnsignedPhase == 2
MaxSignedSubmissions == 2
SignedRewardBase == 1
\* Perbill, in parts per PerbillAccuracy.
SignedRewardFactor == 0
SignedDepositBase == 1
SignedDepositByte == 0
SignedDepositWeight == 0
\* Perbill, in parts per PerbillAccuracy.
SolutionImprovementThreshold == 0
UnsignedPriority == 20

\* What T::SolutionImprovementThreshold::get() returns in the runtime under
\* study: fixed at genesis, SolutionImprovementThreshold unless the
\* specification draws it from Thresholds.
VARIABLE improvement_threshold
Thresholds == {0, 50, 100}

\* What T::UnsignedPriority::get() and T::UnsignedPhase::get() return in the
\* runtime under study, its WeightInfo::submit_unsigned as a function of
\* the active voters and its T::MinerMaxWeight::get(): fixed at genesis.
VARIABLES unsigned_priority, unsigned_phase, weight_info, miner_max_weight

\* The build profile: a debug build checks integer overflow and evaluates
\* debug_assert!, a release build wraps and skips the assertion.
VARIABLE debug_build

\* The data provider's own check of an assignment,
\* ElectionDataProvider::feasibility_check_assignment(who, distribution),
\* which feasibility_check asks for every voter of a solution.  The
\* provider is outside the pallet: the (voter, target) pairs it refuses are
\* fixed at genesis, none of them unless the specification draws them from
\* ProviderRefusals.
VARIABLE provider_refuses
NoRefusal == {}
ProviderRefusals == {NoRefusal, {<<2, 10>>}}
feasibility_check_assignment(who, distribution) ==
    \A i \in 1..Len(distribution) : <<who, distribution[i]>> \notin provider_refuses

\* The off-chain worker executions of the node that are under way, and the
\* blocks the re-run guard has accepted so far, in order.
VARIABLE workers

\* Voter counts are u32.  The model's u32 ends one above the voter counts
\* it draws freely, so that u32::MAX is among the inputs.
U32Max == MaxVoters + 1

\* WeightInfo::submit_unsigned of the runtime: the same for every solution.
WeightInfo == [active_voters \in 0..U32Max |-> 0]
\* T::MinerMaxWeight of the runtime.
MinerMaxWeight == 0

\* ------------------------------------------------------------------------
\* Generic helpers.
\* ------------------------------------------------------------------------
Max(a, b) == IF a >= b THEN a ELSE b
Min(a, b) == IF a <= b THEN a ELSE b
Range(s) == {s[i] : i \in 1..Len(s)}

RECURSIVE SumOver(_, _)
\* Sum of f[x] for x in the finite set S.
SumOver(f, S) ==
    IF S = {} THEN 0
    ELSE LET x == CHOOSE y \in S : TRUE IN f[x] + SumOver(f, S \ {x})

\* ------------------------------------------------------------------------
\* The data provider (ElectionDataProvider): what voters(), targets() and
\* desired_targets() return when the signed phase starts.
\* ------------------------------------------------------------------------
\* (AccountId, VoteWeight, approvals)
DataVoters ==
    << [who |-> 1, stake |-> 1, approvals |-> {10, 20}],
       [who |-> 2, stake |-> 2, approvals |-> {10}] >>
DataTargets == <<10, 20>>
DataDesiredTargets == 1

\* Accounts that send signed submissions, with their initial free balance.
Submitters == {7, 8}
InitialFree == [a \in Submitters |-> 1]

\* ------------------------------------------------------------------------
\* Solutions.  A compact solution is a sequence of single-target votes
\* [voter |-> index into snapshot.voters, target |-> index into
\* snapshot.targets] (0-based, as in the pallet), each giving the voter's
\* whole stake to the target.  A RawSolution is [compact, score].
\* ------------------------------------------------------------------------
Some(x) == <<x>>
None == << >>

RECURSIVE SortedSeq(_)
\* The elements of a finite set of integers as an ascending sequence.
SortedSeq(S) ==
    IF S = {} THEN << >>
    ELSE LET m == CHOOSE x \in S : \A y \in S : x <= y
         IN <<m>> \o SortedSeq(S \ {m})

\* CompactSolution::unique_targets: the distinct target indices, ascending.
unique_targets(compact) == SortedSeq({compact[i].target : i \in 1..Len(compact)})

\* voter_at / target_at closures: index -> Option<AccountId>.
voter_at(snap, i) ==
    IF i >= 0 /\ i < Len(snap.voters) THEN Some(snap.voters[i + 1].who) ELSE None
target_at(snap, i) ==
    IF i >= 0 /\ i < Len(snap.targets) THEN Some(snap.targets[i + 1]) ELSE None

\* stake_of closure: the stake of the first snapshot voter with that id, or 0.
stake_of(snap, who) ==
    LET hits == {i \in 1..Len(snap.voters) : snap.voters[i].who = who}
    IN IF hits = {} THEN 0
       ELSE snap.voters[CHOOSE i \in hits : \A j \in hits : i <= j].stake

\* The approvals of the first snapshot voter with that id (None if absent).
approvals_of(snap, who) ==
    LET hits == {i \in 1..Len(snap.voters) : snap.voters[i].who = who}
    IN IF hits = {} THEN None
       ELSE Some(snap.voters[CHOOSE i \in hits : \A j \in hits : i <= j].approvals)

\* to_supports over the staked assignments of a resolved compact: one entry
\* per winner, target-major, with its total backing and its backers.
to_supports(snap, compact, winners) ==
    [w \in 1..Len(winners) |->
        LET t == winners[w]
            mine == SelectSeq(compact, LAMBDA e : target_at(snap, e.target) = Some(t))
            backers == [k \in 1..Len(mine) |->
                          LET v == voter_at(snap, mine[k].voter)[1]
                          IN <<v, stake_of(snap, v)>>]
        IN [who |-> t,
            total |-> SumOver([k \in 1..Len(backers) |-> backers[k][2]], 1..Len(backers)),
            voters |-> backers]]

\* EvaluateSupport::evaluate: [min backing, sum of backings, sum of squares].
evaluate(supports) ==
    LET idx == 1..Len(supports)
        min_support ==
            IF idx = {} THEN 0
            ELSE supports[CHOOSE i \in idx : \A j \in idx : supports[i].total <= supports[j].total].total
    IN << min_support,
          SumOver([i \in idx |-> supports[i].total], idx),
          SumOver([i \in idx |-> supports[i].total * supports[i].total], idx) >>

Ok(ready) == [ok |-> TRUE, err |-> "", ready |-> Some(ready)]
Err(e) == [ok |-> FALSE, err |-> e, ready |-> None]

\* Self::desired_targets(): the desired winner count of the round.
desired_targets(snapshot) ==
    IF snapshot = None THEN 0 ELSE snapshot[1].desired_targets

feasibility_check_trusts_score(solution, compute, snapshot) ==
    LET compact == solution.compact
        winners_idx == unique_targets(compact)
    IN IF Len(winners_idx) # desired_targets(snapshot) THEN Err("WrongWinnerCount")
       ELSE IF snapshot = None THEN Err("SnapshotUnavailable")
       ELSE
        LET snap == snapshot[1]
            pairs == 1..Len(compact)
        IN IF \E i \in 1..Len(winners_idx) : target_at(snap, winners_idx[i]) = None
             THEN Err("InvalidWinner")
           ELSE IF \E i \in pairs : voter_at(snap, compact[i].voter) = None
                                    \/ target_at(snap, compact[i].target) = None
             THEN Err("NposElection")
           ELSE IF \E i \in pairs :
                      approvals_of(snap, voter_at(snap, compact[i].voter)[1]) = None
             THEN Err("InvalidVoter")
           ELSE IF \E i \in pairs :
                      LET who == voter_at(snap, compact[i].voter)[1]
                          distribution == <<target_at(snap, compact[i].target)[1]>>
                      IN \/ distribution[1] \notin approvals_of(snap, who)[1]
                         \/ ~feasibility_check_assignment(who, distribution)
             THEN Err("InvalidVote")
           ELSE
            LET winners == [i \in 1..Len(winners_idx) |-> target_at(snap, winners_idx[i])[1]]
                supports == to_supports(snap, compact, winners)
                known_score == evaluate(supports)
            IN Ok([supports |-> supports, compute |-> compute, score |-> solution.score])

feasibility_check(solution, compute, snapshot) ==
    LET compact == solution.compact
        winners_idx == unique_targets(compact)
    IN IF Len(winners_idx) # desired_targets(snapshot) THEN Err("WrongWinnerCount")
       ELSE IF snapshot = None THEN Err("SnapshotUnavailable")
       ELSE
        LET snap == snapshot[1]
            pairs == 1..Len(compact)
        IN IF \E i \in 1..Len(winners_idx) : target_at(snap, winners_idx[i]) = None
             THEN Err("InvalidWinner")
           ELSE IF \E i \in pairs : voter_at(snap, compact[i].voter) = None
                                    \/ target_at(snap, compact[i].target) = None
             THEN Err("NposElection")
           ELSE IF \E i \in pairs :
                      approvals_of(snap, voter_at(snap, compact[i].voter)[1]) = None
             THEN Err("InvalidVoter")
           ELSE IF \E i \in pairs :
                      LET who == voter_at(snap, compact[i].voter)[1]
                          distribution == <<target_at(snap, compact[i].target)[1]>>
                      IN \/ distribution[1] \notin approvals_of(snap, who)[1]
                         \/ ~feasibility_check_assignment(who, distribution)
             THEN Err("InvalidVote")
           ELSE
            LET winners == [i \in 1..Len(winners_idx) |-> target_at(snap, winners_idx[i])[1]]
                supports == to_supports(snap, compact, winners)
                known_score == evaluate(supports)
            IN IF known_score # solution.score THEN Err("InvalidScore")
               ELSE Ok([supports |-> supports, compute |-> compute, score |-> solution.score])

\* The solutions offered to submit and submit_unsigned.
Vote(v, t) == [voter |-> v, target |-> t]
Solutions ==
    { [compact |-> <<Vote(0, 0)>>,             score |-> <<1, 1, 1>>],
      [compact |-> <<Vote(0, 0), Vote(1, 0)>>, score |-> <<3, 3, 9>>],
      [compact |-> <<Vote(0, 0)>>,             score |-> <<2, 2, 4>>],
      [compact |-> <<Vote(1, 0)>>,             score |-> <<4, 4, 16>>] }

\* ------------------------------------------------------------------------
\* Arithmetic of the runtime types.
\* ------------------------------------------------------------------------
\* Perbill values are kept in parts per PerbillAccuracy (the runtime uses
\* 10^9 parts); Perbill * x rounds to the nearest integer.
PerbillMul(parts, x) == (parts * x + (PerbillAccuracy \div 2)) \div PerbillAccuracy

\* is_score_better(this, that, epsilon): `this` improves on `that` by at
\* least the relative threshold, compared on the primary score element.
\* Score elements are u128, kept in ScoreBits bits; the margin is added
\* with saturation.
U128Max == 2^ScoreBits - 1
is_score_better_margin_on_this(this, that, epsilon) ==
    Min(U128Max, this[1] + PerbillMul(epsilon, this[1])) >= that[1]
is_score_better(this, that, epsilon) ==
    this[1] >= Min(U128Max, that[1] + PerbillMul(epsilon, that[1]))

\* ------------------------------------------------------------------------
\* Currency (ReservableCurrency).  A balance sheet is [free, reserved], both
\* functions of the account.
\* ------------------------------------------------------------------------
can_reserve(bal, who, d) == bal.free[who] >= d
reserve(bal, who, d) ==
    [free |-> [bal.free EXCEPT ![who] = @ - d],
     reserved |-> [bal.reserved EXCEPT ![who] = @ + d]]
unreserve(bal, who, d) ==
    LET actual == Min(d, bal.reserved[who])
    IN [free |-> [bal.free EXCEPT ![who] = @ + actual],
        reserved |-> [bal.reserved EXCEPT ![who] = @ - actual]]
slash_reserved(bal, who, d) ==
    LET actual == Min(d, bal.reserved[who])
    IN [free |-> bal.free,
        reserved |-> [bal.reserved EXCEPT ![who] = @ - actual]]
deposit_creating(bal, who, amount) ==
    [free |-> [bal.free EXCEPT ![who] = @ + amount], reserved |-> bal.reserved]

\* ------------------------------------------------------------------------
\* Events (RawEvent), as records of one shape.
\* ------------------------------------------------------------------------
SolutionStored(compute) == [name |-> "SolutionStored", who |-> 0, compute |-> compute]
\* ElectionFinalized(Option<ElectionCompute>): compute is "None" for None.
ElectionFinalized(compute) == [name |-> "ElectionFinalized", who |-> 0, compute |-> compute]
Rewarded(who) == [name |-> "Rewarded", who |-> who, compute |-> ""]
Slashed(who) == [name |-> "Slashed", who |-> who, compute |-> ""]

\* ------------------------------------------------------------------------
\* The signed phase (mod signed).
\* ------------------------------------------------------------------------
\* The RoundSnapshot that start_signed_phase puts in Snapshot.
start_signed_phase ==
    Some([voters |-> DataVoters, targets |-> DataTargets,
          desired_targets |-> DataDesiredTargets])

\* The SCALE-encoded length of a solution: a length prefix, two index bytes
\* per vote and three 16-byte score elements.
encoded_len(solution) == 1 + 2 * Len(solution.compact) + 48
\* WeightInfo::feasibility_check().
feasibility_weight == 0

deposit_for(solution) ==
    LET len_deposit == SignedDepositByte * encoded_len(solution)
        weight_deposit == SignedDepositWeight * feasibility_weight
    IN SignedDepositBase + len_deposit + weight_deposit

reward_for(solution) ==
    SignedRewardBase + PerbillMul(SignedRewardFactor, solution.score[1])

\* Vec::insert(at, x) and Vec::remove(0), with 0-based `at`.
VecInsert(q, at, x) == SubSeq(q, 1, at) \o <<x>> \o SubSeq(q, at + 1, Len(q))
VecRemoveFirst(q) == SubSeq(q, 2, Len(q))

\* insert_submission without the queue.remove(0) of an over-long queue.
insert_submission_keeps_worst(who, queue, solution) ==
    LET better == {i \in 1..Len(queue) :
                      is_score_better(solution.score, queue[i].solution.score,
                                      improvement_threshold)}
        at == IF better = {} THEN 0
              ELSE CHOOSE i \in better : \A j \in better : j <= i
    IN IF at = 0 /\ Len(queue) >= MaxSignedSubmissions
         THEN [outcome |-> None, queue |-> queue]
       ELSE
        LET submission == [who |-> who, deposit |-> deposit_for(solution),
                           reward |-> reward_for(solution), solution |-> solution]
        IN [outcome |-> Some(at), queue |-> VecInsert(queue, at, submission)]
\* insert_submission that, at position 0 of a full queue, overwrites the
\* worst entry instead of rejecting.
insert_submission_replaces_worst(who, queue, solution) ==
    LET better == {i \in 1..Len(queue) :
                      is_score_better(solution.score, queue[i].solution.score,
                                      improvement_threshold)}
        at == IF better = {} THEN 0
              ELSE CHOOSE i \in better : \A j \in better : j <= i
        submission == [who |-> who, deposit |-> deposit_for(solution),
                       reward |-> reward_for(solution), solution |-> solution]
        inserted == VecInsert(queue, at, submission)
    IN IF at = 0 /\ Len(queue) >= MaxSignedSubmissions
         THEN [outcome |-> Some(0), queue |-> <<submission>> \o Tail(queue)]
       ELSE IF Len(inserted) > MaxSignedSubmissions
         THEN [outcome |-> Some(at - 1), queue |-> VecRemoveFirst(inserted)]
       ELSE [outcome |-> Some(at), queue |-> inserted]
\* insert_submission: [outcome |-> Option<usize>, queue |-> the queue after].
insert_submission(who, queue, solution) ==
    LET better == {i \in 1..Len(queue) :
                      is_score_better(solution.score, queue[i].solution.score,
                                      improvement_threshold)}
        \* find_map over the reversed enumeration: the last index that the
        \* new score improves on, plus one; or(Some(0)) otherwise.
        at == IF better = {} THEN 0
              ELSE CHOOSE i \in better : \A j \in better : j <= i
    IN IF at = 0 /\ Len(queue) >= MaxSignedSubmissions
         THEN [outcome |-> None, queue |-> queue]
       ELSE
        LET submission == [who |-> who, deposit |-> deposit_for(solution),
                           reward |-> reward_for(solution), solution |-> solution]
            inserted == VecInsert(queue, at, submission)
        IN IF Len(inserted) > MaxSignedSubmissions
             THEN [outcome |-> Some(at - 1), queue |-> VecRemoveFirst(inserted)]
           ELSE [outcome |-> Some(at), queue |-> inserted]

RECURSIVE finalize_loop(_)
\* The `while let Some(best) = all_submission.pop()` loop of
\* finalize_signed_phase.  st = [all_submission, bal, queued, found,
\* snapshot]; returns the state when the loop is left.  No event is
\* deposited for a reward or a slash.
finalize_loop(st) ==
    IF st.all_submission = << >> THEN st
    ELSE
     LET n == Len(st.all_submission)
         best == st.all_submission[n]
         rest == SubSeq(st.all_submission, 1, n - 1)
         res == feasibility_check(best.solution, "Signed", st.snapshot)
     IN IF res.ok
          THEN [st EXCEPT
                  !.all_submission = rest,
                  !.queued = res.ready,
                  !.bal = deposit_creating(unreserve(st.bal, best.who, best.deposit),
                                           best.who, best.reward),
                  !.found = TRUE]
        ELSE finalize_loop(
               [st EXCEPT
                  !.all_submission = rest,
                  !.bal = slash_reserved(st.bal, best.who, best.deposit)])

RECURSIVE slash_all(_, _)
\* Slashing, instead of unreserving, what the loop left unprocessed.
slash_all(bal, subs) ==
    IF subs = << >> THEN bal
    ELSE slash_all(slash_reserved(bal, subs[1].who, subs[1].deposit), Tail(subs))

RECURSIVE unreserve_all(_, _)
\* all_submission.into_iter().for_each(unreserve deposit).
unreserve_all(bal, subs) ==
    IF subs = << >> THEN bal
    ELSE unreserve_all(unreserve(bal, subs[1].who, subs[1].deposit), Tail(subs))

\* finalize_signed_phase: [found, queued, bal] after it has taken
\* (emptied) SignedSubmissions.
finalize_signed_phase(subs, bal, queued, snapshot) ==
    LET st == finalize_loop([all_submission |-> subs, bal |-> bal, queued |-> queued,
                             found |-> FALSE, snapshot |-> snapshot])
    IN [found |-> st.found,
        queued |-> st.queued,
        bal |-> unreserve_all(st.bal, st.all_submission)]

\* ------------------------------------------------------------------------
\* Phase.
\* ------------------------------------------------------------------------
Off == [tag |-> "Off", open |-> FALSE, at |-> 0]
Signed == [tag |-> "Signed", open |-> FALSE, at |-> 0]
Unsigned(open, at) == [tag |-> "Unsigned", open |-> open, at |-> at]

is_signed_or_unsigned(p) == p.tag \in {"Signed", "Unsigned"}
is_signed(p) == p.tag = "Signed"
is_unsigned(p) == p.tag = "Unsigned"
is_unsigned_open_at(p, at) == p.tag = "Unsigned" /\ p.open /\ p.at = at
is_unsigned_open_ignores_flag(p) == p.tag = "Unsigned"
is_unsigned_open(p) == p.tag = "Unsigned" /\ p.open
is_off(p) == p.tag = "Off"

\* ------------------------------------------------------------------------
\* The unsigned phase (mod unsigned) and the election itself.
\* ------------------------------------------------------------------------
OFFCHAIN_REPEAT == 5

\* An execution of the hook offchain_worker(now) runs on the state of the
\* block it was entered for: `phase` and `snapshot` are CurrentPhase and
\* Snapshot of that state, whatever the chain does while the execution is
\* under way.  The off-chain database and the transaction pool are the
\* node's own and are shared by all executions: each access is a host
\* call, served when the execution gets to it.  pc is where the execution
\* stands: "idle" (not under way), "entered" (it has its block number and
\* its state, and has not yet read the head), "read" (between the
\* local_storage_get and the local_storage_compare_and_set of the re-run
\* guard, `seen` being the head it read), "checked" (the guard has
\* accepted), "mined" (it holds `call` and is about to hand it to the
\* pool).  `accepted` lists the blocks the guard has accepted, `entered` is
\* the block the node last entered the hook for.
Workers == {1, 2}
IdleWorker ==
    [pc |-> "idle", now |-> 0, seen |-> << >>, call |-> << >>,
     phase |-> Off, snapshot |-> << >>]
IdleWorkers ==
    [run |-> [w \in Workers |-> IdleWorker], accepted |-> << >>, entered |-> 0]
\* The executions that hold a mined call.
InFlight == Cardinality({w \in Workers : workers.run[w].pc = "mined"})

\* The assignments sequential Phragmen can return for the snapshot of the
\* data provider, in compact form, and what a call of seq_phragmen can end
\* with: Err, or Ok with one of them.
seq_phragmen_results == { <<Vote(0, 0), Vote(1, 0)>> }
seq_phragmen ==
    {[ok |-> FALSE, compact |-> << >>]}
    \cup {[ok |-> TRUE, compact |-> c] : c \in seq_phragmen_results}

\* The closure set_check_offchain_execution_status hands to
\* StorageValueRef::mutate, applied to the head that mutate read: [ok, err,
\* head], head being the value to store on Ok and the head read on Err.
set_check_window_exclusive(head, now) ==
    IF head # None /\ now < head[1] THEN [ok |-> FALSE, err |-> "fork.", head |-> head]
    ELSE IF head # None /\ now >= head[1] /\ now < head[1] + OFFCHAIN_REPEAT
      THEN [ok |-> FALSE, err |-> "recently executed.", head |-> head]
    ELSE [ok |-> TRUE, err |-> "", head |-> Some(now)]
set_check_accepts_fork(head, now) ==
    IF head # None /\ now >= head[1] /\ now <= head[1] + OFFCHAIN_REPEAT
      THEN [ok |-> FALSE, err |-> "recently executed.", head |-> head]
    ELSE [ok |-> TRUE, err |-> "", head |-> Some(now)]
set_check_always_ok(head, now) == [ok |-> TRUE, err |-> "", head |-> Some(now)]
set_check_offchain_execution_status(head, now) ==
    IF head # None /\ now < head[1] THEN [ok |-> FALSE, err |-> "fork.", head |-> head]
    ELSE IF head # None /\ now >= head[1] /\ now <= head[1] + OFFCHAIN_REPEAT
      THEN [ok |-> FALSE, err |-> "recently executed.", head |-> head]
    ELSE [ok |-> TRUE, err |-> "", head |-> Some(now)]

\* local_storage_compare_and_set: [set, stored].
compare_and_set(stored, old, new) ==
    IF stored = old THEN [set |-> TRUE, stored |-> new]
    ELSE [set |-> FALSE, stored |-> stored]

\* set_check_offchain_execution_status(now) for an execution whose
\* local_storage_get returned `seen` and whose compare-and-set, a later
\* host call, finds `stored`: [ok, err, head], head being the stored head it leaves.  An Err
\* of the closure writes nothing; an Ok of the closure whose compare-and-set
\* fails is Err("failed to write to offchain db.").
mutate_stat(seen, stored, now) ==
    LET decision == set_check_offchain_execution_status(seen, now)
        cas == compare_and_set(stored, seen, decision.head)
    IN IF ~decision.ok THEN [ok |-> FALSE, err |-> decision.err, head |-> stored]
       ELSE IF ~cas.set
         THEN [ok |-> FALSE, err |-> "failed to write to offchain db.",
               head |-> cas.stored]
       ELSE [ok |-> TRUE, err |-> "", head |-> cas.stored]

\* unsigned_pre_dispatch_checks: "" for Ok(()), else the PalletError.
unsigned_pre_dispatch_checks_phase_only(p, queued, solution) ==
    IF ~is_unsigned_open(p) THEN "EarlySubmission" ELSE ""
unsigned_pre_dispatch_checks(p, queued, solution) ==
    IF ~is_unsigned_open(p) THEN "EarlySubmission"
    ELSE IF ~(queued = None
              \/ is_score_better(solution.score, queued[1].score,
                                 improvement_threshold))
      THEN "WeakSubmission"
    ELSE ""

\* PalletError::as_u8: the index DispatchError::Module carries.
ModuleErrors == {"EarlySubmission", "WeakSubmission", "QueueFull", "CannotPayDeposit"}
error_index(e) ==
    CASE e = "EarlySubmission" -> 0
      [] e = "WeakSubmission" -> 1
      [] e = "QueueFull" -> 2
      [] e = "CannotPayDeposit" -> 3

\* TransactionValidity: Ok(ValidTransaction) or Err(InvalidTransaction), as
\* one record.  kind is "Call" or "Custom", code the inner u8 of Custom.
\* The provides tag is left out: the solutions of the model carry no round.
ValidTransaction(priority, longevity, propagate) ==
    [ok |-> TRUE, kind |-> "", code |-> 0, priority |-> priority,
     longevity |-> longevity, propagate |-> propagate]
InvalidTransaction(kind, code) ==
    [ok |-> FALSE, kind |-> kind, code |-> code, priority |-> 0,
     longevity |-> 0, propagate |-> FALSE]
NoValidity == InvalidTransaction("", 0)

\* dispatch_error_to_invalid: Custom(error number) for a module error,
\* Custom(0) for any other DispatchError.
dispatch_error_to_invalid(error) ==
    InvalidTransaction("Custom", IF error \in ModuleErrors THEN error_index(error) ELSE 0)

\* u64 arithmetic of TransactionPriority and TransactionLongevity, on
\* PriorityBits bits.
U64Max == 2^PriorityBits - 1
saturated_into(x) == IF x > U64Max THEN U64Max ELSE x
wrapping_add(a, b) == (a + b) % (U64Max + 1)
saturating_add(a, b) == IF a + b > U64Max THEN U64Max ELSE a + b
try_into(x) == IF x >= 0 /\ x <= U64Max THEN Some(x) ELSE None
unwrap_or(opt, default) == IF opt = None THEN default ELSE opt[1]

DEFAULT_LONGEVITY == 25

\* The calls of the pallet a transaction can carry.
SubmitCall(solution) == [name |-> "submit", solution |-> solution]
SubmitUnsignedCall(solution) == [name |-> "submit_unsigned", solution |-> solution]
TransactionSources == {"InBlock", "Local", "External"}

\* ValidateUnsigned::validate_unsigned over the storage (p, queued).
validate_unsigned_any_source(source, call, p, queued) ==
    IF call.name = "submit_unsigned" THEN
       LET check == unsigned_pre_dispatch_checks(p, queued, call.solution)
       IN IF check # "" THEN dispatch_error_to_invalid(check)
          ELSE ValidTransaction(
                 saturating_add(unsigned_priority, saturated_into(call.solution.score[1])),
                 unwrap_or(try_into(unsigned_phase), DEFAULT_LONGEVITY),
                 FALSE)
    ELSE InvalidTransaction("Call", 0)
validate_unsigned(source, call, p, queued) ==
    IF call.name = "submit_unsigned" THEN
       IF source \notin {"Local", "InBlock"} THEN InvalidTransaction("Call", 0)
       ELSE
       LET check == unsigned_pre_dispatch_checks(p, queued, call.solution)
       IN IF check # "" THEN dispatch_error_to_invalid(check)
          ELSE ValidTransaction(
                 saturating_add(unsigned_priority, saturated_into(call.solution.score[1])),
                 unwrap_or(try_into(unsigned_phase), DEFAULT_LONGEVITY),
                 FALSE)
    ELSE InvalidTransaction("Call", 0)

\* ValidateUnsigned::pre_dispatch.
pre_dispatch(call, p, queued) ==
    IF call.name = "submit_unsigned" THEN
       LET check == unsigned_pre_dispatch_checks(p, queued, call.solution)
       IN IF check # "" THEN dispatch_error_to_invalid(check)
          ELSE ValidTransaction(0, 0, FALSE)
    ELSE InvalidTransaction("Call", 0)

\* maximum_compact_len over the weight function w (active voters -> weight
\* of submit_unsigned).  checked_add and checked_sub are None outside
\* 0..U32Max.
next_voters(current_weight, max_weight, voters, step, max_voters) ==
    IF current_weight < max_weight THEN
       IF voters + step <= U32Max /\ voters + step < max_voters
         THEN Some(voters + step) ELSE None
    ELSE IF current_weight > max_weight THEN
       IF voters - step >= 0 THEN Some(voters - step) ELSE None
    ELSE Some(voters)

RECURSIVE binary_search(_, _, _, _, _)
\* The first loop: [returned, voters], returned when the loop left the
\* function with its value.
binary_search(w, max_weight, max_voters, voters, step) ==
    IF ~(step > 0) THEN [returned |-> FALSE, voters |-> voters]
    ELSE LET next == next_voters(w[voters], max_weight, voters, step, max_voters)
         IN IF next = None THEN [returned |-> FALSE, voters |-> voters]
            ELSE IF next[1] # voters
              THEN binary_search(w, max_weight, max_voters, next[1], step \div 2)
            ELSE [returned |-> TRUE, voters |-> next[1]]

\* The loop `while voters + 1 <= max_voters && weight_with(voters + 1) <
\* max_weight { voters += 1 }` in u32: [outcome, voters].  voters + 1
\* overflows at U32Max: a build with overflow checks panics there, a build
\* without them wraps to 0.  The loop's condition depends on voters alone,
\* so a loop that has run more than U32Max + 1 times runs forever.
RECURSIVE increase_voters(_, _, _, _, _, _)
increase_voters(w, max_weight, max_voters, voters, checked, turns) ==
    IF voters = U32Max /\ checked THEN [outcome |-> "overflow", voters |-> voters]
    ELSE IF turns > U32Max + 1 THEN [outcome |-> "diverges", voters |-> voters]
    ELSE LET succ == (voters + 1) % (U32Max + 1)
         IN IF succ <= max_voters /\ w[succ] < max_weight
              THEN increase_voters(w, max_weight, max_voters, succ, checked, turns + 1)
            ELSE [outcome |-> "returned", voters |-> voters]

RECURSIVE reduce_voters(_, _, _)
reduce_voters(w, max_weight, voters) ==
    IF voters - 1 >= 0 /\ w[voters] > max_weight
      THEN reduce_voters(w, max_weight, voters - 1)
    ELSE voters

\* [outcome, len, asserted]: how the call ended ("returned", "overflow" for
\* the overflow panic, "diverges"), the returned length and whether the
\* condition of the closing debug assertion held (TRUE on the paths that
\* return before it).
maximum_compact_len(w, desired_winners, witness, max_weight, checked) ==
    IF witness.voters < 1
      THEN [outcome |-> "returned", len |-> witness.voters, asserted |-> TRUE]
    ELSE
    LET max_voters == Max(witness.voters, 1)
        found == binary_search(w, max_weight, max_voters, max_voters, max_voters \div 2)
    IN IF found.returned
         THEN [outcome |-> "returned", len |-> found.voters, asserted |-> TRUE]
       ELSE
       LET up == increase_voters(w, max_weight, max_voters, found.voters, checked, 0)
           voters == reduce_voters(w, max_weight, up.voters)
           len == Min(voters, witness.voters)
       IN IF up.outcome # "returned"
            THEN [outcome |-> up.outcome, len |-> 0, asserted |-> TRUE]
          ELSE [outcome |-> "returned", len |-> len, asserted |-> w[len] <= max_weight]

\* nominator_index (voter_index_fn): the 0-based position of the first
\* snapshot voter with that id.
nominator_index(snap, who) ==
    LET hits == {i \in 1..Len(snap.voters) : snap.voters[i].who = who}
    IN IF hits = {} THEN None
       ELSE Some((CHOOSE i \in hits : \A j \in hits : i <= j) - 1)

\* CompactSolution::voters_count and remove_voter: [removed, compact], the
\* first entry of that voter taken out.
voters_count(compact) == Len(compact)
remove_voter(compact, index) ==
    LET hits == {i \in 1..Len(compact) : compact[i].voter = index}
    IN IF hits = {} THEN [removed |-> FALSE, compact |-> compact]
       ELSE LET at == CHOOSE i \in hits : \A j \in hits : i <= j
            IN [removed |-> TRUE,
                compact |-> SubSeq(compact, 1, at - 1) \o SubSeq(compact, at + 1, Len(compact))]

RECURSIVE sort_by_key(_, _)
\* The positions S of voters in ascending order of stake, positions of
\* equal stake in their snapshot order (sort_by_key is stable).
sort_by_key(voters, S) ==
    IF S = {} THEN << >>
    ELSE LET m == CHOOSE x \in S : \A y \in S :
                      \/ voters[x].stake < voters[y].stake
                      \/ (voters[x].stake = voters[y].stake /\ x <= y)
         IN <<m>> \o sort_by_key(voters, S \ {m})

\* The snapshot's voters as trim_compact walks them.
voters_unsorted(voters) == [i \in 1..Len(voters) |-> i]
voters_sorted(voters) == sort_by_key(voters, 1..Len(voters))

RECURSIVE trim_loop(_, _, _, _, _, _)
\* The removal loop from the k-th voter of sorted on.
trim_loop(snap, sorted, k, compact, removed, to_remove) ==
    IF k > Len(sorted) THEN [ok |-> TRUE, err |-> "", compact |-> compact]
    ELSE LET maybe_index == nominator_index(snap, snap.voters[sorted[k]].who)
         IN IF maybe_index = None
              THEN [ok |-> FALSE, err |-> "SnapshotUnAvailable", compact |-> compact]
            ELSE LET step == remove_voter(compact, maybe_index[1])
                     now_removed == IF step.removed THEN removed + 1 ELSE removed
                 IN IF now_removed >= to_remove
                      THEN [ok |-> TRUE, err |-> "", compact |-> step.compact]
                    ELSE trim_loop(snap, sorted, k + 1, step.compact, now_removed, to_remove)

\* trim_compact: [ok, err, compact].
trim_compact(maximum_allowed_voters, compact, snapshot) ==
    LET to_remove == voters_count(compact) - maximum_allowed_voters
    IN IF to_remove > 0 THEN
          IF snapshot = None
            THEN [ok |-> FALSE, err |-> "SnapshotUnAvailable", compact |-> compact]
          ELSE trim_loop(snapshot[1], voters_sorted(snapshot[1].voters), 1,
                         compact, 0, to_remove)
       ELSE [ok |-> TRUE, err |-> "", compact |-> compact]

\* mine_solution / prepare_election_result of mod unsigned, for a call of
\* seq_phragmen that ends with `election`: Err without a snapshot, the
\* election's error if it fails, else its reduced assignments trimmed to
\* maximum_compact_len voters, with the score computed from the trimmed
\* compact and the election's winners.  A panic or an endless loop inside
\* maximum_compact_len ends the miner.
mine_solution(snapshot, election, w, max_weight, checked) ==
    IF snapshot = None THEN [ok |-> FALSE, err |-> "SnapshotUnAvailable", solution |-> None]
    ELSE IF ~election.ok THEN [ok |-> FALSE, err |-> "NposElections", solution |-> None]
    ELSE LET snap == snapshot[1]
             compact == election.compact
             witness == [voters |-> Len(snap.voters), targets |-> Len(snap.targets)]
             maximum_allowed_voters ==
                 maximum_compact_len(w, snap.desired_targets, witness, max_weight, checked)
             trimmed == trim_compact(maximum_allowed_voters.len, compact, snapshot)
             idx == unique_targets(compact)
             winners == [i \in 1..Len(idx) |-> target_at(snap, idx[i])[1]]
         IN IF maximum_allowed_voters.outcome # "returned"
              THEN [ok |-> FALSE, err |-> maximum_allowed_voters.outcome, solution |-> None]
            ELSE IF checked /\ ~maximum_allowed_voters.asserted
              THEN [ok |-> FALSE, err |-> "panic", solution |-> None]
            ELSE IF ~trimmed.ok THEN [ok |-> FALSE, err |-> trimmed.err, solution |-> None]
            ELSE [ok |-> TRUE, err |-> "",
                  solution |-> Some([compact |-> trimmed.compact,
                                     score |-> evaluate(to_supports(snap, trimmed.compact,
                                                                    winners))])]

\* prepare_election_result as the off-chain worker hook reaches it: Err
\* without a snapshot, else the reduced compact with its score.
\* maximum_compact_len is called for an empty witness, which returns at its
\* first line, and its result is not used: trim_compact is given the
\* compact's own length and removes nothing.
prepare_election_result(snapshot, compact) ==
    IF snapshot = None THEN [ok |-> FALSE, err |-> "SnapshotUnAvailable", solution |-> None]
    ELSE LET snap == snapshot[1]
             trimmed == trim_compact(voters_count(compact), compact, snapshot)
             idx == unique_targets(compact)
             winners == [i \in 1..Len(idx) |-> target_at(snap, idx[i])[1]]
         IN IF ~trimmed.ok THEN [ok |-> FALSE, err |-> trimmed.err, solution |-> None]
            ELSE [ok |-> TRUE, err |-> "",
                  solution |-> Some([compact |-> trimmed.compact,
                                     score |-> evaluate(to_supports(snap, trimmed.compact,
                                                                    winners))])]

\* mine_solution as the off-chain worker hook calls it, for a call of
\* seq_phragmen that ends with `election`: Err without a snapshot, the
\* election's error if it fails, else prepare_election_result of its
\* assignments.
mine_solution_of_hook(snapshot, election) ==
    IF snapshot = None THEN [ok |-> FALSE, err |-> "SnapshotUnAvailable", solution |-> None]
    ELSE IF ~election.ok THEN [ok |-> FALSE, err |-> "NposElections", solution |-> None]
    ELSE prepare_election_result(snapshot, election.compact)

\* onchain_fallback: fb = [ok, compact] is what the on-chain sequential
\* Phragmen does with the snapshot's data.
onchain_fallback(snapshot, fb) ==
    IF snapshot = None THEN [ok |-> FALSE, err |-> "SnapshotUnAvailable", supports |-> << >>]
    ELSE IF ~fb.ok THEN [ok |-> FALSE, err |-> "OnChainFallback", supports |-> << >>]
    ELSE LET snap == snapshot[1]
             idx == unique_targets(fb.compact)
             winners == [i \in 1..Len(idx) |-> target_at(snap, idx[i])[1]]
         IN [ok |-> TRUE, err |-> "", supports |-> to_supports(snap, fb.compact, winners)]

\* What on-chain sequential Phragmen can do: fail, or elect.
FallbackOutcomes == seq_phragmen

\* The first half of elect: the queued solution's supports and compute, or
\* else the on-chain fallback's with compute OnChain.
elect_outcome_ignores_queue(queued, fallback) ==
    [ok |-> fallback.ok, err |-> fallback.err,
     supports |-> fallback.supports, compute |-> "OnChain"]
elect_outcome(queued, fallback) ==
    IF queued = None
      THEN [ok |-> fallback.ok, err |-> fallback.err,
            supports |-> fallback.supports, compute |-> "OnChain"]
    ELSE [ok |-> TRUE, err |-> "",
          supports |-> queued[1].supports, compute |-> queued[1].compute]

\* The phase, the snapshot and the event elect leaves, by its outcome.
elect_phase(outcome, p) == IF outcome.ok THEN Off ELSE p
elect_snapshot_always_kills(outcome, snapshot) == None
elect_snapshot(outcome, snapshot) == IF outcome.ok THEN None ELSE snapshot
elect_events_always_some(outcome) == <<ElectionFinalized(outcome.compute)>>
elect_events(outcome) ==
    IF outcome.ok THEN <<ElectionFinalized(outcome.compute)>>
    ELSE <<ElectionFinalized("None")>>

\* ------------------------------------------------------------------------
\* on_initialize's decisions.
\* ------------------------------------------------------------------------
remaining_blocks(prediction, now) == Max(prediction, now) - now
opens_signed_inclusive(p, remaining) ==
    is_off(p) /\ remaining <= SignedPhase + unsigned_phase /\ remaining >= unsigned_phase
opens_signed(p, remaining) ==
    is_off(p) /\ remaining <= SignedPhase + unsigned_phase /\ remaining > unsigned_phase
opens_unsigned_any_phase(p, remaining) ==
    remaining <= unsigned_phase /\ remaining > 0
opens_unsigned_exclusive(p, remaining) ==
    is_signed(p) /\ remaining < unsigned_phase /\ remaining > 0
opens_unsigned_again(p, remaining) ==
    (is_signed(p) \/ is_unsigned(p)) /\ remaining <= unsigned_phase /\ remaining > 0
opens_unsigned(p, remaining) ==
    is_signed(p) /\ remaining <= unsigned_phase /\ remaining > 0
bump_round_sets(r) == 1
bump_round(r) == r + 1

\* ------------------------------------------------------------------------
\* State.
\* ------------------------------------------------------------------------
VARIABLES
    block,               \* the block on_initialize last ran for
    phase,               \* CurrentPhase
    round,               \* Round
    snapshot,            \* Snapshot: Option<RoundSnapshot>
    signed_submissions,  \* SignedSubmissions, sorted worst -> best
    queued_solution,     \* QueuedSolution: Option<ReadySolution>
    balances,            \* the Currency's [free, reserved] per submitter
    events,              \* the events deposited by the last call
    offchain_head,       \* the off-chain "last head" entry: Option<BlockNumber>
    pool,                \* the unsigned transactions submitted to the pool
    last                 \* the last call and what it returned

vars == <<block, phase, round, snapshot, signed_submissions, queued_solution,
          balances, events, offchain_head, pool, last, improvement_threshold,
                      unsigned_priority, unsigned_phase, weight_info, miner_max_weight, debug_build, provider_refuses, workers>>

Call(op, ok, err) ==
    [op |-> op, ok |-> ok, err |-> err, prediction |-> 0, supports |-> None,
     compute |-> "", args |-> << >>, validity |-> NoValidity, len |-> 0,
     compact |-> << >>]

Genesis(refusals) ==
    /\ block = 0
    /\ phase = Off
    /\ round = 0
    /\ snapshot = None
    /\ signed_submissions = << >>
    /\ queued_solution = None
    /\ balances = [free |-> InitialFree, reserved |-> [a \in Submitters |-> 0]]
    /\ events = << >>
    /\ offchain_head = None
    /\ pool = << >>
    /\ last = Call("genesis", TRUE, "")
    /\ improvement_threshold = SolutionImprovementThreshold
    /\ unsigned_priority = UnsignedPriority
    /\ unsigned_phase = UnsignedPhase
    /\ weight_info = WeightInfo
    /\ miner_max_weight = MinerMaxWeight
    /\ debug_build = TRUE
    /\ provider_refuses \in refusals
    /\ workers = IdleWorkers

\* The genesis of a chain under any of the data providers of ProviderRefusals.
Init == Genesis(ProviderRefusals)
\* The genesis of a chain whose data provider refuses no assignment.
InitNode == Genesis({NoRefusal})

\* The predictions next_election_prediction(now) is drawn from.
Predictions(now) == (now - 1)..(now + SignedPhase + unsigned_phase + 1)

on_initialize(prediction) ==
    LET now == block + 1
        remaining == remaining_blocks(prediction, now)
    IN /\ block' = now
       /\ last' = [Call("on_initialize", TRUE, "") EXCEPT !.prediction = prediction]
       /\ IF opens_signed(phase, remaining) THEN
             /\ phase' = Signed
             /\ round' = bump_round(round)
             /\ snapshot' = start_signed_phase
             /\ events' = << >>
             /\ UNCHANGED <<signed_submissions, queued_solution, balances>>
          ELSE IF opens_unsigned(phase, remaining) THEN
             LET fin == finalize_signed_phase(signed_submissions, balances,
                                              queued_solution, snapshot)
             IN /\ signed_submissions' = << >>
                /\ queued_solution' = fin.queued
                /\ balances' = fin.bal
                /\ events' = << >>
                /\ phase' = Unsigned(~fin.found, now)
                /\ UNCHANGED <<round, snapshot>>
          ELSE
             /\ events' = << >>
             /\ UNCHANGED <<phase, round, snapshot, signed_submissions,
                            queued_solution, balances>>
       /\ UNCHANGED <<offchain_head, pool, improvement_threshold,
                      unsigned_priority, unsigned_phase, weight_info, miner_max_weight, debug_build, provider_refuses, workers>>

\* submit that puts the new queue before it reserves the deposit.
submit_puts_before_reserve(who, solution) ==
    LET ins == insert_submission(who, signed_submissions, solution)
        unchanged == UNCHANGED <<signed_submissions, balances>>
    IN /\ UNCHANGED <<block, phase, round, snapshot, queued_solution,
                      offchain_head, pool, improvement_threshold,
                      unsigned_priority, unsigned_phase, weight_info, miner_max_weight, debug_build, provider_refuses, workers>>
       /\ IF ~is_signed(phase) THEN
             /\ last' = Call("submit", FALSE, "EarlySubmission")
             /\ events' = << >>
             /\ unchanged
          ELSE IF ins.outcome = None THEN
             /\ last' = Call("submit", FALSE, "QueueFull")
             /\ events' = << >>
             /\ unchanged
          ELSE
             LET index == ins.outcome[1]
                 deposit == ins.queue[index + 1].deposit
             IN IF ~can_reserve(balances, who, deposit) THEN
                   /\ last' = Call("submit", FALSE, "CannotPayDeposit")
                   /\ events' = << >>
                   /\ signed_submissions' = ins.queue
                   /\ UNCHANGED balances
                ELSE
                   /\ balances' = reserve(balances, who, deposit)
                   /\ signed_submissions' = ins.queue
                   /\ events' = <<SolutionStored("Signed")>>
                   /\ last' = Call("submit", TRUE, "")

submit(who, solution) ==
    LET ins == insert_submission(who, signed_submissions, solution)
        unchanged == UNCHANGED <<signed_submissions, balances>>
    IN /\ UNCHANGED <<block, phase, round, snapshot, queued_solution,
                      offchain_head, pool, improvement_threshold,
                      unsigned_priority, unsigned_phase, weight_info, miner_max_weight, debug_build, provider_refuses, workers>>
       /\ IF ~is_signed(phase) THEN
             /\ last' = Call("submit", FALSE, "EarlySubmission")
             /\ events' = << >>
             /\ unchanged
          ELSE IF ins.outcome = None THEN
             /\ last' = Call("submit", FALSE, "QueueFull")
             /\ events' = << >>
             /\ unchanged
          ELSE
             LET index == ins.outcome[1]
                 deposit == ins.queue[index + 1].deposit
             IN IF ~can_reserve(balances, who, deposit) THEN
                   /\ last' = Call("submit", FALSE, "CannotPayDeposit")
                   /\ events' = << >>
                   /\ unchanged
                ELSE
                   /\ balances' = reserve(balances, who, deposit)
                   /\ signed_submissions' = ins.queue
                   /\ events' = <<SolutionStored("Signed")>>
                   /\ last' = Call("submit", TRUE, "")

submit_unsigned(solution) ==
    LET check == unsigned_pre_dispatch_checks(phase, queued_solution, solution)
        res == feasibility_check(solution, "Unsigned", snapshot)
    IN /\ UNCHANGED <<block, phase, round, snapshot, signed_submissions, balances,
                      offchain_head, pool, improvement_threshold,
                      unsigned_priority, unsigned_phase, weight_info, miner_max_weight, debug_build, provider_refuses, workers>>
       /\ IF check # "" THEN
             /\ last' = Call("submit_unsigned", FALSE, check)
             /\ events' = << >>
             /\ UNCHANGED queued_solution
          ELSE IF ~res.ok THEN
             \* expect() panics: the block is invalid and nothing is stored.
             /\ last' = Call("submit_unsigned", FALSE, "panic")
             /\ events' = << >>
             /\ UNCHANGED queued_solution
          ELSE
             /\ queued_solution' = res.ready
             /\ events' = <<SolutionStored("Unsigned")>>
             /\ last' = Call("submit_unsigned", TRUE, "")

\* The off-chain worker hook, offchain_worker(now), is a thread of its own
\* that goes through host calls; other executions of the hook and the
\* blocks of the chain run between them.  Execution w is entered for block
\* `now` on the state the chain is in; `op` names the function entered.
Entered(w, now, op) ==
    /\ workers.run[w].pc = "idle"
    /\ workers' = [workers EXCEPT
                     !.run[w] = [pc |-> "entered", now |-> now, seen |-> << >>,
                                 call |-> << >>, phase |-> phase,
                                 snapshot |-> snapshot],
                     !.entered = now]
    /\ last' = [Call(op, TRUE, "") EXCEPT !.args = <<now, w>>]
    /\ events' = << >>
    /\ UNCHANGED <<block, phase, round, snapshot, signed_submissions,
                   queued_solution, balances, offchain_head, pool,
                   improvement_threshold, unsigned_priority, unsigned_phase,
                   weight_info, miner_max_weight, debug_build, provider_refuses>>

\* The node enters offchain_worker(block) for the block it has imported.
offchain_worker_entry(w) == block >= 1 /\ Entered(w, block, "offchain_worker_entry")

\* set_check_offchain_execution_status(now) is called on its own.
set_check_offchain_execution_status_entry(w, now) ==
    Entered(w, now, "set_check_offchain_execution_status_entry")

\* The local_storage_get of StorageValueRef::mutate, the first host call of
\* set_check_offchain_execution_status: execution w reads the head that is
\* stored when the call is served.
mutate_read(w) ==
    /\ workers.run[w].pc = "entered"
    /\ workers' = [workers EXCEPT !.run[w].pc = "read",
                                  !.run[w].seen = offchain_head]
    /\ last' = [Call("local_storage_get", TRUE, "")
                  EXCEPT !.args = <<workers.run[w].now, w>>]
    /\ events' = << >>
    /\ UNCHANGED <<block, phase, round, snapshot, signed_submissions,
                   queued_solution, balances, offchain_head, pool,
                   improvement_threshold, unsigned_priority, unsigned_phase,
                   weight_info, miner_max_weight, debug_build, provider_refuses>>

\* set_check_offchain_execution_status called on its own: execution w
\* applies the closure to the head it read, writes if the closure accepted,
\* and returns.
mutate_write(w) ==
    LET me == workers.run[w]
        status == mutate_stat(me.seen, offchain_head, me.now)
    IN /\ me.pc = "read"
       /\ offchain_head' = status.head
       /\ workers' = [workers EXCEPT
                        !.run[w] = IdleWorker,
                        !.accepted = IF status.ok THEN Append(@, me.now) ELSE @]
       /\ last' = [Call("set_check_offchain_execution_status", status.ok, status.err)
                     EXCEPT !.args = <<me.now, w>>]
       /\ events' = << >>
       /\ UNCHANGED <<block, phase, round, snapshot, signed_submissions,
                      queued_solution, balances, pool,
                      improvement_threshold, unsigned_priority, unsigned_phase,
                      weight_info, miner_max_weight, debug_build, provider_refuses>>

\* The first operand of the hook's condition,
\* set_check_offchain_execution_status(n).is_ok(), from its compare-and-set
\* on: execution w applies the closure to the head it read and writes if
\* the closure accepted.  If the guard is Ok the hook goes on to its second
\* operand, else it returns.
offchain_worker_guard(w) ==
    LET me == workers.run[w]
        status == mutate_stat(me.seen, offchain_head, me.now)
    IN /\ me.pc = "read"
       /\ offchain_head' = status.head
       /\ workers' =
             [workers EXCEPT
                !.run[w] = IF status.ok
                             THEN [me EXCEPT !.pc = "checked", !.seen = << >>]
                           ELSE IdleWorker,
                !.accepted = IF status.ok THEN Append(@, me.now) ELSE @]
       /\ last' = [Call("set_check_offchain_execution_status", status.ok, status.err)
                     EXCEPT !.args = <<me.now, w>>]
       /\ events' = << >>
       /\ UNCHANGED <<block, phase, round, snapshot, signed_submissions,
                      queued_solution, balances, pool,
                      improvement_threshold, unsigned_priority, unsigned_phase,
                      weight_info, miner_max_weight, debug_build, provider_refuses>>

\* The hook after its guard: execution w reads the phase of its state and,
\* if that is open at its block, mines on the snapshot of its state.  It
\* returns if the phase is not open at its block or if the miner fails (the
\* error is logged); else it holds the call it is about to hand to the
\* pool.  `election` is what seq_phragmen ends with.
offchain_worker(w, election) ==
    LET me == workers.run[w]
        open == is_unsigned_open_at(me.phase, me.now)
        mined == mine_solution_of_hook(me.snapshot, election)
    IN /\ me.pc = "checked"
       /\ workers' = [workers EXCEPT !.run[w] =
                         IF open /\ mined.ok
                           THEN [me EXCEPT !.pc = "mined",
                                           !.call = SubmitUnsignedCall(mined.solution[1])]
                         ELSE IdleWorker]
       /\ last' = [Call("offchain_worker", open /\ mined.ok,
                        IF open THEN mined.err ELSE "")
                     EXCEPT !.args = <<me.now, w>>]
       /\ events' = << >>
       /\ UNCHANGED <<block, phase, round, snapshot, signed_submissions,
                      queued_solution, balances, offchain_head, pool,
                      improvement_threshold, unsigned_priority, unsigned_phase,
                      weight_info, miner_max_weight, debug_build, provider_refuses>>

\* mine_and_submit of mod unsigned called on the state the chain is in, up
\* to its host call to the pool: execution w mines with the miner that
\* trims to MinerMaxWeight and, if that succeeds, holds the call it is
\* about to hand to the pool.
mine_and_submit(w, election) ==
    LET mined == mine_solution(snapshot, election, weight_info, miner_max_weight,
                               debug_build)
    IN /\ block >= 1
       /\ workers.run[w].pc = "idle"
       /\ workers' = [workers EXCEPT !.run[w] =
                         IF mined.ok
                           THEN [pc |-> "mined", now |-> block, seen |-> << >>,
                                 call |-> SubmitUnsignedCall(mined.solution[1]),
                                 phase |-> phase, snapshot |-> snapshot]
                         ELSE IdleWorker]
       /\ last' = [Call("mine_and_submit", mined.ok, mined.err)
                     EXCEPT !.args = <<block, w>>]
       /\ events' = << >>
       /\ UNCHANGED <<block, phase, round, snapshot, signed_submissions,
                      queued_solution, balances, offchain_head, pool, improvement_threshold,
                      unsigned_priority, unsigned_phase, weight_info, miner_max_weight, debug_build, provider_refuses>>

\* SubmitTransaction::submit_unsigned_transaction(call), the last host call
\* of mine_and_submit: the pool takes the call of execution w, or refuses
\* it (Err(PoolSubmissionFailed), which the hook logs).
submit_unsigned_transaction(w, pool_ok) ==
    LET me == workers.run[w]
    IN /\ me.pc = "mined"
       /\ workers' = [workers EXCEPT !.run[w] = IdleWorker]
       /\ pool' = IF pool_ok THEN Append(pool, me.call) ELSE pool
       /\ last' = [Call("submit_unsigned_transaction", pool_ok,
                        IF pool_ok THEN "" ELSE "PoolSubmissionFailed")
                     EXCEPT !.args = <<me.now, w>>]
       /\ events' = << >>
       /\ UNCHANGED <<block, phase, round, snapshot, signed_submissions,
                      queued_solution, balances, offchain_head, improvement_threshold,
                      unsigned_priority, unsigned_phase, weight_info, miner_max_weight, debug_build, provider_refuses>>

elect(fb) ==
    LET outcome == elect_outcome(queued_solution, onchain_fallback(snapshot, fb))
    IN /\ phase' = elect_phase(outcome, phase)
       /\ snapshot' = elect_snapshot(outcome, snapshot)
       /\ events' = elect_events(outcome)
       /\ last' = [Call("elect", outcome.ok, outcome.err) EXCEPT
                     !.supports = IF outcome.ok THEN Some(outcome.supports) ELSE None,
                     !.compute = IF outcome.ok THEN outcome.compute ELSE ""]
       /\ UNCHANGED <<block, round, signed_submissions, queued_solution, balances,
                      offchain_head, pool, improvement_threshold,
                      unsigned_priority, unsigned_phase, weight_info, miner_max_weight, debug_build, provider_refuses, workers>>

\* The transaction pool or the block builder asks the pallet to validate an
\* unsigned call.
validate_unsigned_call(source, call) ==
    LET validity == validate_unsigned(source, call, phase, queued_solution)
    IN /\ last' = [Call("validate_unsigned", validity.ok, "") EXCEPT
                     !.args = <<source, call>>, !.validity = validity]
       /\ events' = << >>
       /\ UNCHANGED <<block, phase, round, snapshot, signed_submissions,
                      queued_solution, balances, offchain_head, pool,
                      improvement_threshold,
                      unsigned_priority, unsigned_phase, weight_info, miner_max_weight, debug_build, provider_refuses, workers>>

\* The block executor re-checks an unsigned call right before dispatch.
pre_dispatch_call(call) ==
    LET validity == pre_dispatch(call, phase, queued_solution)
    IN /\ last' = [Call("pre_dispatch", validity.ok, "") EXCEPT
                     !.args = <<call>>, !.validity = validity]
       /\ events' = << >>
       /\ UNCHANGED <<block, phase, round, snapshot, signed_submissions,
                      queued_solution, balances, offchain_head, pool,
                      improvement_threshold,
                      unsigned_priority, unsigned_phase, weight_info, miner_max_weight, debug_build, provider_refuses, workers>>

\* maximum_compact_len::<W>(desired_winners, witness, max_weight) on its own.
maximum_compact_len_call(desired_winners, witness, max_weight) ==
    LET result == maximum_compact_len(weight_info, desired_winners, witness,
                                      max_weight, debug_build)
        ended == IF result.outcome # "returned" THEN result.outcome
                 ELSE IF debug_build /\ ~result.asserted THEN "panic" ELSE ""
    IN /\ last' = [Call("maximum_compact_len", ended = "", ended)
                     EXCEPT !.args = <<desired_winners, witness, max_weight>>,
                            !.len = result.len]
       /\ UNCHANGED <<block, phase, round, snapshot, signed_submissions,
                      queued_solution, balances, events, offchain_head, pool,
                      improvement_threshold,
                      unsigned_priority, unsigned_phase, weight_info, miner_max_weight, debug_build, provider_refuses, workers>>

\* The chain on its own: the calls of the pallet that blocks carry, in any
\* order.
Next ==
    \/ block < MaxBlock /\ \E prediction \in Predictions(block + 1) : on_initialize(prediction)
    \/ \E who \in Submitters, solution \in Solutions : submit(who, solution)
    \/ \E solution \in Solutions : submit_unsigned(solution)
    \/ \E fb \in FallbackOutcomes : elect(fb)

Spec == Init /\ [][Next]_vars

\* ------------------------------------------------------------------------
\* The chain and a node's off-chain worker.  The node enters the hook for
\* the block it has imported, on a thread of its own; up to two executions
\* are under way at a time, each at any of its host calls, for as long as
\* it takes, while the chain goes on: later blocks are imported, elect
\* runs, or another execution takes a step.  The executions are numbered
\* as they enter: a new one takes the lowest number that is free.  Signed
\* solutions come from the submitters of HookSubmitters, who offer the
\* feasible solution of HookSolutions, and the block author dispatches the
\* calls of the pool.
\* ------------------------------------------------------------------------
HookSubmitters == {7}
HookSolutions ==
    { [compact |-> <<Vote(0, 0), Vote(1, 0)>>, score |-> <<3, 3, 9>>] }
\* The steps of an execution of the hook, by the host call or the call of
\* the pallet that each ends with.
WorkerOps ==
    {"offchain_worker_entry", "local_storage_get",
     "set_check_offchain_execution_status", "offchain_worker",
     "submit_unsigned_transaction"}

FreeWorker(w) ==
    /\ workers.run[w].pc = "idle"
    /\ \A v \in Workers : workers.run[v].pc = "idle" => w <= v

NextHook ==
    \/ block < MaxBlock /\ \E prediction \in Predictions(block + 1) : on_initialize(prediction)
    \/ \E who \in HookSubmitters, solution \in HookSolutions : submit(who, solution)
    \/ \E i \in 1..Len(pool) : submit_unsigned(pool[i].solution)
    \/ \E w \in Workers : FreeWorker(w) /\ offchain_worker_entry(w)
    \/ \E w \in Workers : mutate_read(w)
    \/ \E w \in Workers : offchain_worker_guard(w)
    \/ \E w \in Workers, election \in seq_phragmen : offchain_worker(w, election)
    \/ \E w \in Workers, pool_ok \in BOOLEAN : submit_unsigned_transaction(w, pool_ok)
    \/ \E fb \in FallbackOutcomes : elect(fb)

SpecHook == InitNode /\ [][NextHook]_vars

\* ------------------------------------------------------------------------
\* The off-chain worker over several rounds: the chain without signed
\* submissions, up to block MaxWorkerBlock, and the node's hook as above,
\* with up to two executions under way for as long as they take.  The data
\* provider predicts the elections of a chain that elects periodically: at
\* FirstElection and every ElectionPeriod blocks from there, so that the
\* unsigned phases of two rounds open more than OFFCHAIN_REPEAT blocks
\* apart.
\* ------------------------------------------------------------------------
MaxWorkerBlock == 8
FirstElection == 4
ElectionPeriod == 6

\* ElectionDataProvider::next_election_prediction(now) of that provider: the
\* first election block that is not before now.
next_election_prediction(now) ==
    IF now <= FirstElection THEN FirstElection
    ELSE FirstElection
           + ElectionPeriod * ((now - FirstElection + ElectionPeriod - 1) \div ElectionPeriod)

NextWorker ==
    \/ block < MaxWorkerBlock /\ on_initialize(next_election_prediction(block + 1))
    \/ \E w \in Workers : FreeWorker(w) /\ offchain_worker_entry(w)
    \/ \E w \in Workers : mutate_read(w)
    \/ \E w \in Workers : offchain_worker_guard(w)
    \/ \E w \in Workers, election \in seq_phragmen : offchain_worker(w, election)
    \/ \E w \in Workers, pool_ok \in BOOLEAN : submit_unsigned_transaction(w, pool_ok)
    \/ \E fb \in FallbackOutcomes : elect(fb)

SpecWorker == InitNode /\ [][NextWorker]_vars

\* ------------------------------------------------------------------------
\* The signed phase on its own: on_initialize and submit, from every genesis
\* with an improvement threshold of Thresholds and free balances of
\* InitialFrees.
\* ------------------------------------------------------------------------
InitialFrees == [Submitters -> {1, 2}]

InitSigned ==
    /\ block = 0
    /\ phase = Off
    /\ round = 0
    /\ snapshot = None
    /\ signed_submissions = << >>
    /\ queued_solution = None
    /\ \E free \in InitialFrees :
          balances = [free |-> free, reserved |-> [a \in Submitters |-> 0]]
    /\ events = << >>
    /\ offchain_head = None
    /\ pool = << >>
    /\ last = Call("genesis", TRUE, "")
    /\ improvement_threshold \in Thresholds
    /\ unsigned_priority = UnsignedPriority
    /\ unsigned_phase = UnsignedPhase
    /\ weight_info = WeightInfo
    /\ miner_max_weight = MinerMaxWeight
    /\ debug_build = TRUE
    /\ provider_refuses \in ProviderRefusals
    /\ workers = IdleWorkers

NextSigned ==
    \/ block < MaxBlock /\ \E prediction \in Predictions(block + 1) : on_initialize(prediction)
    \/ \E who \in Submitters, solution \in Solutions : submit(who, solution)

SpecSigned == InitSigned /\ [][NextSigned]_vars

\* ------------------------------------------------------------------------
\* The unsigned phase on its own: no signed submission is sent, unsigned
\* calls are validated, pre-dispatched and dispatched, from the genesis of
\* every runtime of Runtimes: the configured one, and one each with another
\* improvement threshold, a priority next to the maximum, and an unsigned
\* phase longer than DEFAULT_LONGEVITY.
\* ------------------------------------------------------------------------
Runtime(threshold, priority, unsigned) ==
    [threshold |-> threshold, priority |-> priority, unsigned |-> unsigned]
Runtimes ==
    { Runtime(SolutionImprovementThreshold, UnsignedPriority, UnsignedPhase),
      Runtime(50, UnsignedPriority, UnsignedPhase),
      Runtime(SolutionImprovementThreshold, U64Max - 1, UnsignedPhase),
      Runtime(SolutionImprovementThreshold, UnsignedPriority, DEFAULT_LONGEVITY + 1) }
\* An empty compact with a claimed score of [5, 0, 0], as the pallet's tests
\* hand to validate_unsigned.
ClaimedSolution == [compact |-> << >>, score |-> <<5, 0, 0>>]
Calls == {SubmitUnsignedCall(s) : s \in Solutions \cup {ClaimedSolution}}
         \cup {SubmitCall(CHOOSE s \in Solutions : s.score[1] = 1)}

InitUnsigned ==
    /\ block = 0
    /\ phase = Off
    /\ round = 0
    /\ snapshot = None
    /\ signed_submissions = << >>
    /\ queued_solution = None
    /\ balances = [free |-> InitialFree, reserved |-> [a \in Submitters |-> 0]]
    /\ events = << >>
    /\ offchain_head = None
    /\ pool = << >>
    /\ last = Call("genesis", TRUE, "")
    /\ \E runtime \in Runtimes :
          /\ improvement_threshold = runtime.threshold
          /\ unsigned_priority = runtime.priority
          /\ unsigned_phase = runtime.unsigned
    /\ weight_info = WeightInfo
    /\ miner_max_weight = MinerMaxWeight
    /\ debug_build = TRUE
    /\ provider_refuses \in ProviderRefusals
    /\ workers = IdleWorkers

NextUnsigned ==
    \/ block < MaxBlock /\ \E prediction \in Predictions(block + 1) : on_initialize(prediction)
    \/ \E solution \in Solutions : submit_unsigned(solution)
    \/ \E source \in TransactionSources, call \in Calls :
          validate_unsigned_call(source, call)
    \/ \E call \in Calls : pre_dispatch_call(call)
    \/ \E fb \in FallbackOutcomes : elect(fb)

SpecUnsigned == InitUnsigned /\ [][NextUnsigned]_vars

\* ------------------------------------------------------------------------
\* The off-chain re-run guard on its own, for the block numbers of
\* GuardBlocks, which end at MaxNow: executions of
\* set_check_offchain_execution_status, one after another or overlapping.
\* ------------------------------------------------------------------------
GuardBlocks == (MaxNow - OFFCHAIN_REPEAT - 2)..MaxNow

NextOffchain ==
    \/ \E w \in Workers, now \in GuardBlocks :
          set_check_offchain_execution_status_entry(w, now)
    \/ \E w \in Workers : mutate_read(w)
    \/ \E w \in Workers : mutate_write(w)

SpecOffchain == InitNode /\ [][NextOffchain]_vars

\* ------------------------------------------------------------------------
\* The miner with a weight limit: submit_unsigned weighs one unit per
\* active voter and MinerMaxWeight admits 0, 1, ... or all of the
\* snapshot's voters.  mine_and_submit runs at the block that opened the
\* unsigned phase, where the hook calls it, until a transaction of the
\* round is mined; its call reaches the pool any time later, and the block
\* author dispatches the calls of the pool.
\* ------------------------------------------------------------------------
PerVoterWeight == [active_voters \in 0..U32Max |-> active_voters]

InitMine ==
    /\ block = 0
    /\ phase = Off
    /\ round = 0
    /\ snapshot = None
    /\ signed_submissions = << >>
    /\ queued_solution = None
    /\ balances = [free |-> InitialFree, reserved |-> [a \in Submitters |-> 0]]
    /\ events = << >>
    /\ offchain_head = None
    /\ pool = << >>
    /\ last = Call("genesis", TRUE, "")
    /\ improvement_threshold = SolutionImprovementThreshold
    /\ unsigned_priority = UnsignedPriority
    /\ unsigned_phase = UnsignedPhase
    /\ weight_info = PerVoterWeight
    /\ miner_max_weight \in 0..Len(DataVoters)
    /\ debug_build \in BOOLEAN
    /\ provider_refuses = NoRefusal
    /\ workers = IdleWorkers

NextMine ==
    \/ block < MaxBlock /\ \E prediction \in Predictions(block + 1) : on_initialize(prediction)
    \/ /\ is_unsigned_open_at(phase, block)
       /\ Len(pool) + InFlight < round
       /\ \E w \in Workers, election \in seq_phragmen : mine_and_submit(w, election)
    \/ \E w \in Workers, pool_ok \in BOOLEAN : submit_unsigned_transaction(w, pool_ok)
    \/ \E i \in 1..Len(pool) : submit_unsigned(pool[i].solution)
    \/ \E fb \in FallbackOutcomes : elect(fb)

SpecMine == InitMine /\ [][NextMine]_vars

\* ------------------------------------------------------------------------
\* is_score_better on its own: every pair of Scores under every threshold
\* of Thresholds.  Primary elements are small or next to u128::MAX.
\* ------------------------------------------------------------------------
ScoreValues == {0, 1, 2, U128Max - 1, U128Max}
Scores == {<<p, q, r>> : p \in ScoreValues, q \in 0..1, r \in 0..1}

is_score_better_call(this, that) ==
    /\ last' = [Call("is_score_better",
                      is_score_better(this, that, improvement_threshold), "")
                  EXCEPT !.args = <<this, that>>]
    /\ UNCHANGED <<block, phase, round, snapshot, signed_submissions,
                   queued_solution, balances, events, offchain_head, pool,
                   improvement_threshold,
                   unsigned_priority, unsigned_phase, weight_info, miner_max_weight, debug_build, provider_refuses, workers>>

InitScore ==
    /\ block = 0
    /\ phase = Off
    /\ round = 0
    /\ snapshot = None
    /\ signed_submissions = << >>
    /\ queued_solution = None
    /\ balances = [free |-> InitialFree, reserved |-> [a \in Submitters |-> 0]]
    /\ events = << >>
    /\ offchain_head = None
    /\ pool = << >>
    /\ last = Call("genesis", TRUE, "")
    /\ improvement_threshold \in Thresholds
    /\ unsigned_priority = UnsignedPriority
    /\ unsigned_phase = UnsignedPhase
    /\ weight_info = WeightInfo
    /\ miner_max_weight = MinerMaxWeight
    /\ debug_build = TRUE
    /\ provider_refuses = NoRefusal
    /\ workers = IdleWorkers

NextScore == \E this \in Scores, that \in Scores : is_score_better_call(this, that)

SpecScore == InitScore /\ [][NextScore]_vars

\* ------------------------------------------------------------------------
\* feasibility_check on its own, in every state on_initialize leads to: any
\* compact of up to two votes whose voter and target indices run one past
\* the snapshot, with any of the ClaimedScores.
\* ------------------------------------------------------------------------
ClaimedScores == {<<1, 1, 1>>, <<3, 3, 9>>, <<3, 3, 8>>}
AnyVotes == {Vote(v, t) : v \in 0..Len(DataVoters), t \in 0..Len(DataTargets)}
AnyCompacts ==
    {<< >>} \cup {<<e>> : e \in AnyVotes}
            \cup {c \in AnyVotes \X AnyVotes : c[1].voter # c[2].voter}
AnySolutions == {[compact |-> c, score |-> x] : c \in AnyCompacts, x \in ClaimedScores}

feasibility_check_call(solution, compute) ==
    LET res == feasibility_check(solution, compute, snapshot)
    IN /\ last' = [Call("feasibility_check", res.ok, res.err)
                     EXCEPT !.args = <<solution, compute>>]
       /\ UNCHANGED <<block, phase, round, snapshot, signed_submissions,
                      queued_solution, balances, events, offchain_head, pool,
                      improvement_threshold,
                      unsigned_priority, unsigned_phase, weight_info, miner_max_weight, debug_build, provider_refuses, workers>>

NextFeasibility ==
    \/ block < MaxBlock /\ \E prediction \in Predictions(block + 1) : on_initialize(prediction)
    \/ \E solution \in AnySolutions : feasibility_check_call(solution, "Unsigned")

SpecFeasibility == Init /\ [][NextFeasibility]_vars

\* ------------------------------------------------------------------------
\* trim_compact on its own.  The initial states hold the inputs: a snapshot
\* of TrimVoters voters with stakes up to MaxStake and, as the arguments of
\* the call to come, every limit up to TrimVoters and every set of the
\* snapshot's voters as a compact in ascending or descending index order.
\* ------------------------------------------------------------------------
TrimSnapshots ==
    {[voters |-> [i \in 1..TrimVoters |->
                     [who |-> i, stake |-> stakes[i], approvals |-> {10, 20}]],
      targets |-> DataTargets,
      desired_targets |-> DataDesiredTargets] : stakes \in [1..TrimVoters -> 1..MaxStake]}

Reverse(s) == [i \in 1..Len(s) |-> s[Len(s) + 1 - i]]
TrimCompacts ==
    LET ascending == {[i \in 1..Len(SortedSeq(S)) |-> Vote(SortedSeq(S)[i], 0)] :
                         S \in SUBSET (0..(TrimVoters - 1))}
    IN ascending \cup {Reverse(c) : c \in ascending}

trim_compact_call(maximum_allowed_voters, compact) ==
    LET res == trim_compact(maximum_allowed_voters, compact, snapshot)
    IN /\ last' = [Call("trim_compact", res.ok, res.err)
                     EXCEPT !.args = <<maximum_allowed_voters, compact>>,
                            !.compact = res.compact]
       /\ UNCHANGED <<block, phase, round, snapshot, signed_submissions,
                      queued_solution, balances, events, offchain_head, pool,
                      improvement_threshold,
                      unsigned_priority, unsigned_phase, weight_info, miner_max_weight, debug_build, provider_refuses, workers>>

InitTrim ==
    /\ block = 1
    /\ phase = Signed
    /\ round = 1
    /\ snapshot \in {Some(snap) : snap \in TrimSnapshots}
    /\ signed_submissions = << >>
    /\ queued_solution = None
    /\ balances = [free |-> InitialFree, reserved |-> [a \in Submitters |-> 0]]
    /\ events = << >>
    /\ offchain_head = None
    /\ pool = << >>
    /\ last \in {[Call("genesis", TRUE, "") EXCEPT !.args = <<maximum_allowed_voters, compact>>] :
                    maximum_allowed_voters \in 0..TrimVoters, compact \in TrimCompacts}
    /\ improvement_threshold = SolutionImprovementThreshold
    /\ unsigned_priority = UnsignedPriority
    /\ unsigned_phase = UnsignedPhase
    /\ weight_info = WeightInfo
    /\ miner_max_weight = MinerMaxWeight
    /\ debug_build = TRUE
    /\ provider_refuses = NoRefusal
    /\ workers = IdleWorkers

NextTrim ==
    /\ last.op = "genesis"
    /\ trim_compact_call(last.args[1], last.args[2])

SpecTrim == InitTrim /\ [][NextTrim]_vars

\* ------------------------------------------------------------------------
\* Unsigned submissions that carry the round they were mined for
\* (RawSolution { compact, score, round } of two_phase/unsigned.rs): the
\* current round or the one before.
\* ------------------------------------------------------------------------
RoundSolutions(current) ==
    {[compact |-> s.compact, score |-> s.score, round |-> r] :
        s \in Solutions, r \in {current - 1, current} \cap Nat}

NextRound ==
    \/ block < MaxBlock /\ \E prediction \in Predictions(block + 1) : on_initialize(prediction)
    \/ \E solution \in RoundSolutions(round) : submit_unsigned(solution)
    \/ \E source \in TransactionSources, solution \in RoundSolutions(round) :
          validate_unsigned_call(source, SubmitUnsignedCall(solution))
    \/ \E fb \in FallbackOutcomes : elect(fb)

SpecRound == Init /\ [][NextRound]_vars

\* ------------------------------------------------------------------------
\* Off-chain worker executions racing on the re-run guard.  The guard is
\* StorageValueRef::mutate: it reads the stored head, applies the closure
\* to what it read and, if the closure accepts, writes with
\* local_storage_compare_and_set against what it read.  Another execution
\* may run between the read and the write.
\* ------------------------------------------------------------------------
RaceBlocks == 0..(2 * OFFCHAIN_REPEAT + 2)

NextRace ==
    \/ \E w \in Workers, now \in RaceBlocks :
          set_check_offchain_execution_status_entry(w, now)
    \/ \E w \in Workers : mutate_read(w)
    \/ \E w \in Workers : mutate_write(w)

SpecRace == InitNode /\ [][NextRace]_vars

\* ------------------------------------------------------------------------
\* A node whose off-chain worker hook runs on every block from the block
\* at which the node starts, with an empty off-chain database.  From then
\* on the node enters the hook once for every block, before it imports the
\* next one; once entered, the executions take their host calls in any
\* order and for as long as it takes, while the chain's calls go on and
\* later blocks are imported.  Up to two executions (Workers) are under
\* way at a time: the behaviours end where a third would have to be
\* entered.
\* ------------------------------------------------------------------------
NextEveryBlock ==
    \/ /\ workers.entered \in {0, block}
       /\ block < MaxBlock
       /\ \E prediction \in Predictions(block + 1) : on_initialize(prediction)
    \/ \E fb \in FallbackOutcomes : elect(fb)
    \/ /\ workers.entered < block
       /\ \E w \in Workers : FreeWorker(w) /\ offchain_worker_entry(w)
    \/ \E w \in Workers : mutate_read(w)
    \/ \E w \in Workers : offchain_worker_guard(w)
    \/ \E w \in Workers, election \in seq_phragmen : offchain_worker(w, election)
    \/ \E w \in Workers, pool_ok \in BOOLEAN : submit_unsigned_transaction(w, pool_ok)

SpecEveryBlock == InitNode /\ [][NextEveryBlock]_vars

\* ------------------------------------------------------------------------
\* maximum_compact_len on its own, for every weight function of
\* MonotoneWeights, every voter count up to U32Max, every weight limit up
\* to MaxWeight and both build profiles.
\* ------------------------------------------------------------------------
MonotoneWeights ==
    {w \in [0..U32Max -> 0..MaxWeight] :
        \A a \in 0..U32Max, b \in 0..U32Max : a <= b => w[a] <= w[b]}

InitMiner ==
    /\ block = 0
    /\ phase = Off
    /\ round = 0
    /\ snapshot = None
    /\ signed_submissions = << >>
    /\ queued_solution = None
    /\ balances = [free |-> InitialFree, reserved |-> [a \in Submitters |-> 0]]
    /\ events = << >>
    /\ offchain_head = None
    /\ pool = << >>
    /\ last = Call("genesis", TRUE, "")
    /\ improvement_threshold = SolutionImprovementThreshold
    /\ unsigned_priority = UnsignedPriority
    /\ unsigned_phase = UnsignedPhase
    /\ weight_info \in MonotoneWeights
    /\ miner_max_weight = MinerMaxWeight
    /\ debug_build \in BOOLEAN
    /\ provider_refuses = NoRefusal
    /\ workers = IdleWorkers

NextMiner ==
    \E voters \in 0..U32Max, max_weight \in 0..MaxWeight :
       maximum_compact_len_call(DataDesiredTargets,
                                [voters |-> voters, targets |-> Len(DataTargets)],
                                max_weight)

SpecMiner == InitMiner /\ [][NextMiner]_vars

\* ------------------------------------------------------------------------
\* Properties.
\* ------------------------------------------------------------------------
\* A step of on_initialize is a step that advances the block; a step of any
\* other call leaves the block and names itself in last'.
OnInitializeStep == block' = block + 1
ElectStep == \E fb \in FallbackOutcomes : elect(fb)

\* remaining = max(next_election_prediction(now), now) - now of the
\* on_initialize step being taken.
RemainingOfStep == Max(last'.prediction, block') - block'

\* C1: the phase changes only from Off to Signed and from Signed to Unsigned,
\* both in on_initialize, and to Off in elect; submit, submit_unsigned and
\* the steps of offchain_worker never change it.
C1_PhaseOrder ==
    [][ /\ phase' # phase =>
            \/ OnInitializeStep /\ is_off(phase) /\ is_signed(phase')
            \/ OnInitializeStep /\ is_signed(phase) /\ is_unsigned(phase')
            \/ ElectStep /\ is_off(phase')
        /\ last'.op \in {"submit", "submit_unsigned"} \cup WorkerOps
            => phase' = phase ]_vars
\* C1 witness: a second round has reached its unsigned phase; the call
\* mined in the first round is in the pool and the execution of the hook
\* that was entered for block 3 is still in its guard.
C1_Witness ==
    /\ round = 2 /\ phase = Unsigned(TRUE, 4) /\ last.op = "on_initialize"
    /\ last.prediction = 5 /\ queued_solution = None /\ Len(pool) = 1
    /\ offchain_head = Some(2) /\ balances.free = InitialFree
    /\ workers.run[1].pc = "read" /\ workers.run[1].now = 3

\* C2: on_initialize moves Off to Signed exactly when
\* UnsignedPhase < remaining <= SignedPhase + UnsignedPhase, then adding one
\* to Round and storing the snapshot; otherwise Off, Round and Snapshot stay.
C2_OffToSigned ==
    [][ (OnInitializeStep /\ is_off(phase)) =>
          IF unsigned_phase < RemainingOfStep
             /\ RemainingOfStep <= SignedPhase + unsigned_phase
          THEN /\ phase' = Signed
               /\ round' = round + 1
               /\ snapshot' = Some([voters |-> DataVoters, targets |-> DataTargets,
                                    desired_targets |-> DataDesiredTargets])
          ELSE /\ phase' = Off
               /\ round' = round
               /\ snapshot' = snapshot ]_vars
\* C2 witness: on_initialize has just opened the signed phase of round 1.
C2_Witness ==
    /\ last.op = "on_initialize" /\ last.prediction = 4 /\ block = 1
    /\ is_signed(phase) /\ round = 1 /\ snapshot # None

\* Some queued submission passes the feasibility check.
AnyFeasible ==
    \E i \in 1..Len(signed_submissions) :
        feasibility_check(signed_submissions[i].solution, "Signed", snapshot).ok

\* C3: on_initialize moves Signed to Unsigned exactly when
\* 0 < remaining <= UnsignedPhase; it then finalizes the signed phase and
\* the phase is Unsigned(open, now) with open iff no signed solution was
\* accepted.
C3_SignedToUnsigned ==
    [][ (OnInitializeStep /\ is_signed(phase)) =>
          IF 0 < RemainingOfStep /\ RemainingOfStep <= unsigned_phase
          THEN /\ phase' = Unsigned(~AnyFeasible, block')
               /\ signed_submissions' = << >>
               /\ AnyFeasible => (queued_solution' # None
                                  /\ queued_solution'[1].compute = "Signed")
          ELSE phase' = Signed ]_vars
\* C3 witness: the unsigned phase was just entered closed, after a signed
\* solution was accepted.
C3_Witness ==
    /\ last.op = "on_initialize"
    /\ is_unsigned(phase) /\ ~phase.open /\ phase.at = block
    /\ queued_solution # None /\ queued_solution[1].compute = "Signed"
    /\ balances = [free |-> (7 :> 2 @@ 8 :> 0), reserved |-> (7 :> 0 @@ 8 :> 0)]
    /\ round = 1

\* C4: whenever the phase is Signed or Unsigned the snapshot is present.
C4_SnapshotInRound == (is_signed(phase) \/ is_unsigned(phase)) => snapshot # None
\* C4 witness: an elect that failed during a round left phase and snapshot.
C4_Witness ==
    /\ last.op = "elect" /\ ~last.ok /\ phase = Unsigned(TRUE, 2) /\ snapshot # None
    /\ block = 2 /\ round = 1 /\ queued_solution = None

\* C5: Round grows by exactly one at each Off -> Signed transition and is
\* changed by nothing else.
C5_RoundMonotone ==
    [][ /\ round' # round => (OnInitializeStep /\ is_off(phase) /\ is_signed(phase'))
        /\ (is_off(phase) /\ is_signed(phase')) => round' = round + 1 ]_vars
\* C5 witness: the signed phase of the second round was just opened.
C5_Witness ==
    /\ last.op = "on_initialize" /\ is_signed(phase) /\ round = 2 /\ block = 4
    /\ queued_solution # None /\ signed_submissions = << >>
    /\ offchain_head = None

\* C6: a successful elect returns the queued solution's supports with its
\* compute, or else the on-chain fallback's with compute OnChain; it sets
\* the phase to Off, clears the snapshot and emits
\* ElectionFinalized(Some(compute)).
C6_ElectSuccess ==
    [][ \A fb \in FallbackOutcomes :
          (elect(fb) /\ last'.ok) =>
            /\ IF queued_solution # None
               THEN /\ last'.supports = Some(queued_solution[1].supports)
                    /\ last'.compute = queued_solution[1].compute
               ELSE /\ onchain_fallback(snapshot, fb).ok
                    /\ last'.supports = Some(onchain_fallback(snapshot, fb).supports)
                    /\ last'.compute = "OnChain"
            /\ phase' = Off
            /\ snapshot' = None
            /\ events' = <<ElectionFinalized(last'.compute)>> ]_vars
\* C6 witness: elect returned a queued signed solution.
C6_Witness ==
    /\ last.op = "elect" /\ last.ok /\ last.compute = "Signed"
    /\ events = <<ElectionFinalized("Signed")>>
    /\ last.supports = Some(queued_solution[1].supports) /\ block = 2
    /\ offchain_head = None
    /\ balances.free[8] = 0 /\ balances.free[7] = 2

\* C7: after every elect, whether it returned supports or an error, the
\* phase is Off.
C7_OffAfterElect == last.op = "elect" => is_off(phase)

\* C8: when elect has no queued solution and the on-chain fallback fails
\* (also for want of a snapshot), elect returns the error and emits
\* ElectionFinalized(None) and no ElectionFinalized(Some(_)).
C8_ElectFailure ==
    [][ \A fb \in FallbackOutcomes :
          (elect(fb) /\ queued_solution = None /\ ~onchain_fallback(snapshot, fb).ok) =>
            /\ ~last'.ok
            /\ last'.err = onchain_fallback(snapshot, fb).err
            /\ last'.supports = None
            /\ events' = <<ElectionFinalized("None")>> ]_vars
\* C8 witness: elect failed in a round because the fallback failed.
C8_Witness ==
    /\ last.op = "elect" /\ ~last.ok /\ last.err = "OnChainFallback"
    /\ events = <<ElectionFinalized("None")>> /\ is_signed(phase)
    /\ queued_solution = None /\ Len(signed_submissions) = 2 /\ block = 1

\* C9: elect consumes the queued solution: after a successful elect no
\* QueuedSolution remains.
C9_ElectConsumes == (last.op = "elect" /\ last.ok) => queued_solution = None

\* C10: in every state with phase Off the signed-submission queue is empty
\* and no submission deposit is reserved.
C10_NothingPersists ==
    is_off(phase) =>
        /\ signed_submissions = << >>
        /\ \A a \in Submitters : balances.reserved[a] = 0

\* ------------------------------------------------------------------------
\* The signed queue and its deposits.
\* ------------------------------------------------------------------------
\* The sum of the deposit fields of a sequence of submissions.
DepositsOf(subs) ==
    SumOver([i \in 1..Len(subs) |-> subs[i].deposit], 1..Len(subs))
\* The sum of the deposits of the submissions of `who` in a sequence.
DepositsOfWho(subs, who) ==
    DepositsOf(SelectSeq(subs, LAMBDA s : s.who = who))
\* The total amount reserved over all submitters.
TotalReserved(bal) == SumOver(bal.reserved, Submitters)

\* C11: after any sequence of submit calls, accepted or rejected, the signed
\* queue holds at most MaxSignedSubmissions entries.
C11_QueueBounded == Len(signed_submissions) <= MaxSignedSubmissions
\* C11 witness: a submit was accepted into a full queue, which is still at
\* capacity after the worst entry made room (three deposits were reserved).
C11_Witness ==
    /\ last.op = "submit" /\ last.ok
    /\ Len(signed_submissions) = MaxSignedSubmissions
    /\ TotalReserved(balances) = MaxSignedSubmissions + 1
    /\ improvement_threshold = 0

\* The total order on scores: larger first element, then larger second,
\* then smaller third.
ScoreBetter(a, b) ==
    \/ a[1] > b[1]
    \/ a[1] = b[1] /\ a[2] > b[2]
    \/ a[1] = b[1] /\ a[2] = b[2] /\ a[3] < b[3]

\* C12: for every configured SolutionImprovementThreshold the signed queue
\* is sorted worst -> best: no entry has a better score than an entry
\* behind it.
C12_QueueSorted ==
    \A i, j \in 1..Len(signed_submissions) :
        i < j => ~ScoreBetter(signed_submissions[i].solution.score,
                              signed_submissions[j].solution.score)

\* C13: throughout the Signed phase the deposits of the queued submissions
\* add up to the total that submit has reserved, and right after
\* finalize_signed_phase nothing is reserved any more.
C13_DepositParity ==
    /\ is_signed(phase) =>
          DepositsOf(signed_submissions) = TotalReserved(balances)
    /\ (last.op = "on_initialize" /\ is_unsigned(phase) /\ phase.at = block) =>
          TotalReserved(balances) = 0

\* The sequence q without its k-th element.
WithoutIndex(q, k) == SubSeq(q, 1, k - 1) \o SubSeq(q, k + 1, Len(q))

\* C14: a submit that is accepted into a full queue with a score strictly
\* better than a queued one evicts the entry at index 0, stores the new
\* submission and unreserves the evicted submitter's deposit in the same
\* call.
C14_EvictionRefunds ==
    [][ \A who \in Submitters, solution \in Solutions :
          ( /\ submit(who, solution)
            /\ is_signed(phase)
            /\ Len(signed_submissions) = MaxSignedSubmissions
            /\ \E i \in 1..Len(signed_submissions) :
                  /\ ScoreBetter(solution.score, signed_submissions[i].solution.score)
                  /\ is_score_better(solution.score,
                                     signed_submissions[i].solution.score,
                                     improvement_threshold)
            /\ can_reserve(balances, who, deposit_for(solution)) ) =>
            LET evicted == signed_submissions[1]
            IN /\ last'.ok
               /\ \E k \in 1..Len(signed_submissions') :
                     /\ signed_submissions'[k].who = who
                     /\ signed_submissions'[k].solution = solution
                     /\ WithoutIndex(signed_submissions', k) = Tail(signed_submissions)
               /\ balances' = reserve(unreserve(balances, evicted.who, evicted.deposit),
                                      who, deposit_for(solution)) ]_vars

\* C15: a submit in the Signed phase whose score improves on none of the
\* scores of a full queue fails with QueueFull, reserves nothing and leaves
\* the queue and every reservation as they were.
C15_FullQueueRejects ==
    [][ \A who \in Submitters, solution \in Solutions :
          ( /\ submit(who, solution)
            /\ is_signed(phase)
            /\ Len(signed_submissions) >= MaxSignedSubmissions
            /\ \A i \in 1..Len(signed_submissions) :
                  ~is_score_better(solution.score,
                                   signed_submissions[i].solution.score,
                                   improvement_threshold) ) =>
            /\ ~last'.ok
            /\ last'.err = "QueueFull"
            /\ signed_submissions' = signed_submissions
            /\ balances' = balances
            /\ events' = << >> ]_vars
\* C15 witness: a submit was refused with QueueFull while every submitter
\* could still have paid a deposit.
C15_Witness ==
    /\ last.op = "submit" /\ last.err = "QueueFull"
    /\ Len(signed_submissions) = MaxSignedSubmissions
    /\ \A a \in Submitters : balances.free[a] = 1 /\ balances.reserved[a] = 1
    /\ improvement_threshold = 50

\* C16: submit in a phase other than Signed (Off, Unsigned open or closed)
\* fails with EarlySubmission and changes neither the queue, nor a
\* reservation, nor any other storage.
C16_EarlySubmission ==
    [][ (last'.op = "submit" /\ phase.tag # "Signed") =>
          /\ ~last'.ok
          /\ last'.err = "EarlySubmission"
          /\ events' = << >>
          /\ UNCHANGED <<phase, round, snapshot, signed_submissions,
                         queued_solution, balances>> ]_vars
\* C16 witness: a submit was refused in a closed unsigned phase, with a
\* solution queued and a submitter able to pay the deposit.
C16_Witness ==
    /\ last.op = "submit" /\ last.err = "EarlySubmission"
    /\ phase = Unsigned(FALSE, 2) /\ queued_solution # None
    /\ balances.free[7] = 2 /\ balances.free[8] = 1
    /\ offchain_head = None

\* C17: when the deposit of an insertable submission cannot be reserved,
\* submit returns CannotPayDeposit and the stored queue is what it was: the
\* new submission is not stored and no queued one is evicted.
C17_CannotPayDeposit ==
    [][ \A who \in Submitters, solution \in Solutions :
          ( /\ submit(who, solution)
            /\ is_signed(phase)
            /\ insert_submission(who, signed_submissions, solution).outcome # None
            /\ ~can_reserve(balances, who, deposit_for(solution)) ) =>
            /\ ~last'.ok
            /\ last'.err = "CannotPayDeposit"
            /\ signed_submissions' = signed_submissions
            /\ balances' = balances
            /\ events' = << >> ]_vars
\* C17 witness: CannotPayDeposit at a full queue whose every score the
\* submitted one improved on, so that the insertion would have evicted.
C17_Witness ==
    /\ last.op = "submit" /\ last.err = "CannotPayDeposit"
    /\ Len(signed_submissions) = MaxSignedSubmissions
    /\ \A i \in 1..Len(signed_submissions) :
          signed_submissions[i].solution.score = <<1, 1, 1>>
    /\ improvement_threshold = 0
    /\ balances.free = [a \in Submitters |-> 0]

\* ------------------------------------------------------------------------
\* finalize_signed_phase, as the Signed -> Unsigned step of on_initialize.
\* ------------------------------------------------------------------------
FinalizeStep == OnInitializeStep /\ is_signed(phase) /\ is_unsigned(phase')
\* The queued submission at index i passes the feasibility check.
FeasibleAt(i) ==
    feasibility_check(signed_submissions[i].solution, "Signed", snapshot).ok
FeasibleIdx == {i \in 1..Len(signed_submissions) : FeasibleAt(i)}
\* The sum of the deposits of `who` over the queue indices in I.
DepositsAt(I, who) ==
    DepositsOf(SelectSeq([i \in 1..Len(signed_submissions) |->
                             IF i \in I THEN signed_submissions[i]
                             ELSE [signed_submissions[i] EXCEPT !.deposit = 0]],
                         LAMBDA s : s.who = who))

\* C18: finalize_signed_phase stores as QueuedSolution the best-scored
\* feasible submission of the queue; every submission scored better than it
\* is infeasible and loses its whole deposit; the accepted submitter gets
\* the deposit back plus the reward; and it returns true iff a submission
\* was accepted.
C18_BestFeasibleWins ==
    [][ FinalizeStep =>
          LET q == signed_submissions
              Idx == 1..Len(q)
          IN IF FeasibleIdx = {}
               THEN phase'.open /\ queued_solution' = queued_solution
             ELSE
               /\ ~phase'.open
               /\ \E k \in FeasibleIdx :
                    LET better == {j \in Idx : ScoreBetter(q[j].solution.score,
                                                           q[k].solution.score)}
                    IN /\ queued_solution' =
                            feasibility_check(q[k].solution, "Signed", snapshot).ready
                       /\ better \cap FeasibleIdx = {}
                       /\ \A a \in Submitters :
                            /\ balances'.reserved[a] =
                                  balances.reserved[a] - DepositsAt(Idx, a)
                            /\ balances'.free[a] =
                                  balances.free[a] + DepositsAt(Idx \ better, a)
                                  + (IF q[k].who = a THEN q[k].reward ELSE 0) ]_vars

\* The index of the submission finalize_signed_phase accepts: the last
\* feasible one of the queue, or 0 when none is feasible.
AcceptedIdx ==
    IF FeasibleIdx = {} THEN 0
    ELSE CHOOSE k \in FeasibleIdx : \A i \in FeasibleIdx : i <= k

\* C19: in finalize_signed_phase every submission ranked below the accepted
\* one, that is every submission of a worse score, is left unexamined (the
\* loop, which pops from the back, stops before it) and gets its deposit
\* back in full, with no slash and no reward, feasible or not; the queue is
\* empty afterwards.
C19_LowerRankedRefunded ==
    [][ FinalizeStep =>
          LET q == signed_submissions
              k == AcceptedIdx
              below == {j \in 1..Len(q) :
                           k > 0 /\ ScoreBetter(q[k].solution.score,
                                                q[j].solution.score)}
              accepted(a) == IF k > 0 /\ q[k].who = a
                             THEN q[k].deposit + q[k].reward ELSE 0
          IN /\ signed_submissions' = << >>
             /\ below \subseteq 1..(k - 1)
             /\ \A a \in Submitters :
                  /\ balances'.reserved[a] =
                        balances.reserved[a] - DepositsAt(1..Len(q), a)
                  /\ balances'.free[a] >=
                        balances.free[a] + DepositsAt(below, a) + accepted(a)
                  /\ balances'.free[a] <=
                        balances.free[a] + DepositsAt((1..Len(q)) \ {k}, a)
                        + accepted(a) ]_vars

\* C20: finalize_signed_phase emits Slashed(who) for every submission that
\* fails the feasibility check, in the order examined, and Rewarded(who)
\* for the accepted one.
C20_FinalizeEvents ==
    [][ FinalizeStep =>
          LET q == signed_submissions
              n == Len(q)
              k == AcceptedIdx
              examined == n - Max(k, 1) + 1
          IN /\ Len(events') = examined
             /\ \A m \in 1..examined :
                  events'[m] = IF n - m + 1 = k THEN Rewarded(q[k].who)
                               ELSE Slashed(q[n - m + 1].who) ]_vars

\* The unsigned phase that finalize_signed_phase opened with open = false.
PassivePhase == is_unsigned(phase) /\ ~phase.open

\* An execution of the hook whose own state holds a passive unsigned phase.
PassiveExecution(me) == is_unsigned(me.phase) /\ ~me.phase.open

\* C21 as stated: while the unsigned phase is passive (the signed phase
\* ended with an accepted solution) the queued solution is that signed one,
\* no submit_unsigned call passes validate_unsigned or pre_dispatch from
\* any source, a dispatched submit_unsigned fails and leaves the queue
\* alone, the off-chain worker mines nothing and hands nothing to the pool,
\* and elect returns the queued supports with compute Signed.
C21_WorkerSubmitsNothing ==
    [][ PassivePhase =>
          /\ queued_solution # None
          /\ queued_solution[1].compute = "Signed"
          /\ \A source \in TransactionSources, call \in Calls :
                /\ ~validate_unsigned(source, call, phase, queued_solution).ok
                /\ ~pre_dispatch(call, phase, queued_solution).ok
          /\ (last'.op = "submit_unsigned" =>
                ~last'.ok /\ queued_solution' = queued_solution)
          /\ (last'.op = "offchain_worker" => ~last'.ok)
          /\ pool' = pool
          /\ (ElectStep =>
                /\ last'.ok
                /\ last'.compute = "Signed"
                /\ last'.supports = Some(queued_solution[1].supports)) ]_vars

\* C21, amended: while the unsigned phase is passive the queued solution
\* is the signed one, no submit_unsigned call passes validate_unsigned or
\* pre_dispatch from any source, a dispatched submit_unsigned fails and
\* leaves the queue alone, and elect returns the queued supports with
\* compute Signed.  An execution of the off-chain worker that is entered
\* while the phase is passive runs on that phase, and an execution whose
\* phase is passive mines nothing, hands nothing to the pool and returns,
\* whenever it takes its steps.  What mines or reaches the pool while the
\* phase is passive is an execution that was entered for an earlier block,
\* on a state whose unsigned phase had opened at that block with open =
\* true.
C21_PassiveUnsigned ==
    [][ /\ PassivePhase =>
          /\ queued_solution # None
          /\ queued_solution[1].compute = "Signed"
          /\ \A source \in TransactionSources, call \in Calls :
                /\ ~validate_unsigned(source, call, phase, queued_solution).ok
                /\ ~pre_dispatch(call, phase, queued_solution).ok
          /\ (last'.op = "submit_unsigned" =>
                ~last'.ok /\ queued_solution' = queued_solution)
          /\ (last'.op = "offchain_worker_entry" =>
                /\ workers'.run[last'.args[2]].phase = phase
                /\ workers'.run[last'.args[2]].now = block)
          /\ ((last'.op = "offchain_worker" /\ last'.ok) \/ pool' # pool =>
                LET me == workers.run[last'.args[2]]
                IN /\ last'.op \in {"offchain_worker", "submit_unsigned_transaction"}
                   /\ me.phase = Unsigned(TRUE, me.now)
                   /\ me.now < phase.at)
          /\ (ElectStep =>
                /\ last'.ok
                /\ last'.compute = "Signed"
                /\ last'.supports = Some(queued_solution[1].supports))
        /\ \A w \in Workers :
              PassiveExecution(workers.run[w]) =>
                 /\ workers.run[w].pc \in {"entered", "read", "checked"}
                 /\ workers'.run[w].pc \in {"idle", "entered", "read", "checked"}
                 /\ (last'.op = "offchain_worker" /\ last'.args[2] = w =>
                       /\ ~last'.ok /\ pool' = pool
                       /\ workers'.run[w] = IdleWorker) ]_vars
\* C21 witness: the execution that was entered for block 2, the block that
\* opened a passive unsigned phase, has passed the guard, found the phase
\* of its state not open, mined nothing and returned; the signed solution
\* is still queued.
C21_Witness ==
    /\ last.op = "offchain_worker" /\ ~last.ok /\ last.err = ""
    /\ last.args[1] = 2 /\ phase = Unsigned(FALSE, 2) /\ block = 2
    /\ round = 1 /\ offchain_head = Some(2) /\ pool = << >> /\ InFlight = 0
    /\ workers.accepted = <<2>>
    /\ queued_solution # None /\ queued_solution[1].score = <<3, 3, 9>>
    /\ queued_solution[1].compute = "Signed"

\* A step of validate_unsigned from a source the pallet admits, or of
\* pre_dispatch, on a submit_unsigned call: the call is the last argument.
UnsignedCheckStep ==
    \/ /\ last'.op = "validate_unsigned"
       /\ last'.args[1] \in {"Local", "InBlock"}
       /\ last'.args[2].name = "submit_unsigned"
    \/ /\ last'.op = "pre_dispatch"
       /\ last'.args[1].name = "submit_unsigned"

\* C22: in phase Off and in phase Signed validate_unsigned and pre_dispatch
\* reject a submit_unsigned call with InvalidTransaction::Custom(99); in
\* phase Unsigned(open = true) with no queued solution both accept it.
C22_WrongPhaseCustom99 ==
    [][ UnsignedCheckStep =>
          /\ (is_off(phase) \/ is_signed(phase) =>
                last'.validity = InvalidTransaction("Custom", 99))
          /\ (is_unsigned_open(phase) /\ queued_solution = None =>
                last'.validity.ok) ]_vars

\* The call a step of validate_unsigned or pre_dispatch was given.
CheckedCall == last'.args[Len(last'.args)]

\* What C23 states of a step, with `increases(new, old)` for what a
\* replacement of the queued score old by new has to satisfy.
ThresholdBetter(increases(_, _)) ==
    is_unsigned_open(phase) /\ queued_solution # None =>
      LET old == queued_solution[1].score
      IN /\ (UnsignedCheckStep =>
               (last'.validity.ok <=>
                  is_score_better(CheckedCall.solution.score, old,
                                  improvement_threshold)))
         /\ (last'.op = "submit_unsigned" =>
               /\ (last'.err = "WeakSubmission" =>
                     /\ UNCHANGED <<phase, round, snapshot, signed_submissions,
                                    queued_solution, balances, offchain_head,
                                    pool>>
                     /\ events' = << >>)
               /\ (last'.ok =>
                     LET new == queued_solution'[1].score
                     IN /\ is_score_better(new, old, improvement_threshold)
                        /\ increases(new, old))
               /\ (~last'.ok =>
                     /\ queued_solution' = queued_solution
                     /\ last'.err \in {"WeakSubmission", "panic"}))

C24_OnlyFeasibleQueued ==
    [][ /\ (last'.op = "submit_unsigned" =>
              \A solution \in Solutions :
                 ( /\ submit_unsigned(solution)
                   /\ unsigned_pre_dispatch_checks(phase, queued_solution, solution) = ""
                   /\ ~feasibility_check(solution, "Unsigned", snapshot).ok ) =>
                     /\ last'.err = "panic"
                     /\ events' = << >>
                     /\ UNCHANGED <<phase, round, snapshot, signed_submissions,
                                    queued_solution, balances, offchain_head, pool>>)
        /\ (queued_solution' # queued_solution =>
              /\ queued_solution' # None
              /\ \/ last'.op = "submit_unsigned" /\ last'.ok
                 \/ FinalizeStep
              /\ \E solution \in Solutions :
                    LET res == feasibility_check(
                                 solution,
                                 IF last'.op = "submit_unsigned" THEN "Unsigned" ELSE "Signed",
                                 snapshot)
                    IN res.ok /\ res.ready = queued_solution')
        /\ (queued_solution' # None =>
              queued_solution'[1].score = evaluate(queued_solution'[1].supports)) ]_vars
\* C24 witness: in an open unsigned phase with a queued unsigned solution of
\* score 3, a submit_unsigned with a better claimed score failed the
\* feasibility check and panicked.
C24_Witness ==
    /\ last.op = "submit_unsigned" /\ last.err = "panic"
    /\ is_unsigned_open(phase)
    /\ queued_solution # None /\ queued_solution[1].score = <<3, 3, 9>>
    /\ queued_solution[1].compute = "Unsigned"
    /\ block = 3 /\ round = 1 /\ signed_submissions = << >>

\* C25: validate_unsigned accepts only a submit_unsigned call from
\* TransactionSource::Local or TransactionSource::InBlock; a
\* submit_unsigned from any other source, in any phase and with any score,
\* and any other call from any source, get InvalidTransaction::Call.
C25_LocalOrInBlockOnly ==
    [][ last'.op = "validate_unsigned" =>
          LET source == last'.args[1]
              call == last'.args[2]
          IN /\ (last'.validity.ok =>
                   source \in {"Local", "InBlock"} /\ call.name = "submit_unsigned")
             /\ (source \notin {"Local", "InBlock"} \/ call.name # "submit_unsigned" =>
                   last'.validity = InvalidTransaction("Call", 0)) ]_vars
\* C25 witness: in an open unsigned phase with an empty queue, where the
\* call would pass the pre-dispatch checks, a submit_unsigned from
\* TransactionSource::External was refused with InvalidTransaction::Call.
C25_Witness ==
    /\ last.op = "validate_unsigned"
    /\ last.args[1] = "External" /\ last.args[2].name = "submit_unsigned"
    /\ last.args[2].solution.score = <<3, 3, 9>>
    /\ last.validity = InvalidTransaction("Call", 0)
    /\ is_unsigned_open(phase) /\ queued_solution = None
    /\ block = 2 /\ offchain_head = None
    /\ improvement_threshold = 50

\* C26: the priority of every accepted unsigned submission is
\* UnsignedPriority + score[0], or the maximum priority when that sum
\* exceeds it.
C26_PrioritySaturates ==
    [][ last'.op = "validate_unsigned" /\ last'.validity.ok =>
          LET sum == unsigned_priority + last'.args[2].solution.score[1]
          IN last'.validity.priority = IF sum <= U64Max THEN sum ELSE U64Max ]_vars
\* C26 witness: with an UnsignedPriority one below the maximum, a
\* submission of score 3 was accepted with the maximum priority.
C26_Witness ==
    /\ last.op = "validate_unsigned" /\ last.validity.ok
    /\ unsigned_priority = U64Max - 1
    /\ last.args[1] = "Local"
    /\ last.args[2].solution.score = <<3, 3, 9>>
    /\ last.validity.priority = U64Max
    /\ queued_solution = None /\ block = 2 /\ offchain_head = None

\* C27: the longevity of every accepted unsigned submission is
\* min(UnsignedPhase, DEFAULT_LONGEVITY), whatever the configured
\* UnsignedPhase.
C27_LongevityMin ==
    [][ last'.op = "validate_unsigned" /\ last'.validity.ok =>
          last'.validity.longevity =
             IF unsigned_phase <= DEFAULT_LONGEVITY THEN unsigned_phase
             ELSE DEFAULT_LONGEVITY ]_vars

\* C28: set_check_offchain_execution_status(n), when no other execution
\* writes the head between its read and its write, returns Ok and stores n
\* as the head exactly when no head is stored or n > head +
\* OFFCHAIN_REPEAT; otherwise it returns Err and leaves the head as it is:
\* "fork." for n < head, "recently executed." for head <= n <= head +
\* OFFCHAIN_REPEAT.  An Ok always has that condition and n as the head; a
\* call that read another head than the one now stored writes nothing: it
\* returns the Err of its closure on what it read, or
\* Err("failed to write to offchain db.") when the closure accepted.
C28_RerunGuard ==
    [][ last'.op = "set_check_offchain_execution_status" =>
          LET n == last'.args[1]
              seen == workers.run[last'.args[2]].seen
              accepts == \/ offchain_head = None
                         \/ n > offchain_head[1] + OFFCHAIN_REPEAT
          IN /\ (last'.ok => accepts /\ offchain_head' = Some(n))
             /\ (seen = offchain_head => (last'.ok <=> accepts))
             /\ (~accepts =>
                   /\ ~last'.ok
                   /\ offchain_head' = offchain_head)
             /\ (seen = offchain_head /\ ~accepts =>
                   /\ (n < offchain_head[1] => last'.err = "fork.")
                   /\ (n >= offchain_head[1] => last'.err = "recently executed."))
             /\ (seen # offchain_head =>
                   /\ ~last'.ok
                   /\ offchain_head' = offchain_head
                   /\ last'.err =
                        IF seen = None \/ n > seen[1] + OFFCHAIN_REPEAT
                          THEN "failed to write to offchain db."
                        ELSE IF n < seen[1] THEN "fork."
                        ELSE "recently executed.") ]_vars
\* C28 witness: 25 was accepted, then 31, being more than OFFCHAIN_REPEAT
\* past 25, and with the head at 31 block 30 was refused as a fork.
C28_Witness ==
    /\ last.op = "set_check_offchain_execution_status"
    /\ last.args[1] = 30 /\ ~last.ok /\ last.err = "fork."
    /\ offchain_head = Some(31)
    /\ workers.accepted = <<25, 31>>
    /\ 31 = 25 + OFFCHAIN_REPEAT + 1

\* C29: an execution of offchain_worker(n) runs on the state of block n
\* and reads the stored head when its local_storage_get is served.  It
\* holds a call for the pool only if its re-run guard accepted n (no head,
\* or n more than OFFCHAIN_REPEAT past it, and the head it read still
\* stored; n becomes the head) and the phase of its state is
\* Unsigned(open = true, opened_at = n); otherwise it returns with
\* nothing.  The pool only grows by the submit_unsigned call such an
\* execution holds; an execution that fails to mine or to reach the pool
\* returns without a panic and without a transaction, and no step of the
\* worker touches the chain's storage.  The head only moves forward, so
\* the worker submits at most once per round: the calls in the pool and
\* those still held are never more than the rounds started.
C29_WorkerSubmitsOnce ==
    [][ /\ (last'.op = "offchain_worker_entry" =>
              LET after == workers'.run[last'.args[2]]
              IN /\ last'.args[1] = block /\ after.now = block
                 /\ after.phase = phase /\ after.snapshot = snapshot
                 /\ after.pc = "entered"
                 /\ pool' = pool /\ offchain_head' = offchain_head)
        /\ (last'.op = "local_storage_get" =>
              LET me == workers.run[last'.args[2]]
                  after == workers'.run[last'.args[2]]
              IN /\ me.pc = "entered" /\ me.now = last'.args[1]
                 /\ after = [me EXCEPT !.pc = "read", !.seen = offchain_head]
                 /\ pool' = pool /\ offchain_head' = offchain_head)
        /\ (last'.op = "set_check_offchain_execution_status" =>
              LET n == last'.args[1]
                  me == workers.run[last'.args[2]]
                  after == workers'.run[last'.args[2]]
              IN /\ me.pc = "read" /\ me.now = n
                 /\ pool' = pool
                 /\ (last'.ok =>
                       /\ me.seen = None \/ n > me.seen[1] + OFFCHAIN_REPEAT
                       /\ offchain_head = me.seen
                       /\ offchain_head' = Some(n)
                       /\ after = [me EXCEPT !.pc = "checked", !.seen = << >>])
                 /\ (~last'.ok =>
                       /\ after = IdleWorker
                       /\ offchain_head' = offchain_head))
        /\ (last'.op = "offchain_worker" =>
              LET n == last'.args[1]
                  me == workers.run[last'.args[2]]
                  after == workers'.run[last'.args[2]]
              IN /\ me.pc = "checked" /\ me.now = n
                 /\ last'.err # "panic"
                 /\ pool' = pool /\ offchain_head' = offchain_head
                 /\ (last'.ok =>
                       /\ me.phase = Unsigned(TRUE, n)
                       /\ after.pc = "mined"
                       /\ after.call.name = "submit_unsigned")
                 /\ (~last'.ok => after = IdleWorker)
                 /\ (me.phase # Unsigned(TRUE, n) => ~last'.ok /\ last'.err = ""))
        /\ (\A w \in Workers :
              /\ (workers'.run[w].pc = "checked" /\ workers.run[w].pc # "checked") =>
                    /\ last'.op = "set_check_offchain_execution_status"
                    /\ last'.ok /\ last'.args[2] = w
              /\ (workers'.run[w].pc = "mined" /\ workers.run[w].pc # "mined") =>
                    /\ last'.op = "offchain_worker" /\ last'.ok /\ last'.args[2] = w
                    /\ workers.run[w].pc = "checked")
        /\ (pool' # pool =>
              /\ last'.op = "submit_unsigned_transaction" /\ last'.ok
              /\ workers.run[last'.args[2]].pc = "mined"
              /\ pool' = Append(pool, workers.run[last'.args[2]].call))
        /\ (last'.op = "submit_unsigned_transaction" =>
              /\ workers'.run[last'.args[2]] = IdleWorker
              /\ (~last'.ok => last'.err = "PoolSubmissionFailed" /\ pool' = pool))
        /\ (last'.op \in WorkerOps =>
              UNCHANGED <<block, phase, round, snapshot, signed_submissions,
                          queued_solution, balances>>)
        /\ (offchain_head # None =>
              offchain_head' # None /\ offchain_head'[1] >= offchain_head[1])
        /\ Len(pool') + InFlight' <= round' ]_vars
\* C29 witness: the execution for block 2, which opened the unsigned phase
\* of round 1, and the execution for block 8, which opened that of round
\* 2, were the two the guard accepted; each mined and its call has reached
\* the pool, the second one just now.
C29_Witness ==
    /\ last.op = "submit_unsigned_transaction" /\ last.ok /\ last.args[1] = 8
    /\ phase = Unsigned(TRUE, 8) /\ block = 8 /\ round = 2
    /\ offchain_head = Some(8) /\ Len(pool) = 2
    /\ workers.accepted = <<2, 8>> /\ 8 = 2 + OFFCHAIN_REPEAT + 1

\* C30: for every weight function that is monotone non-decreasing in the
\* active voters, every witness and every max_weight, maximum_compact_len
\* returns a length whose weight is at most max_weight, and its closing
\* debug assertion holds.
C30_WeightWithinLimit ==
    [][ last'.op = "maximum_compact_len" =>
          /\ weight_info[last'.len] <= last'.args[3]
          /\ last'.ok ]_vars

\* C31: for every monotone weight function, witness and max_weight the
\* length v returned by maximum_compact_len is the largest that fits:
\* v = witness.voters, or v + 1 voters weigh more than max_weight.
C31_LargestThatFits ==
    [][ last'.op = "maximum_compact_len" =>
          \/ last'.len = last'.args[2].voters
          \/ weight_info[last'.len + 1] > last'.args[3] ]_vars

\* C32: maximum_compact_len ends for every input (no panic, no loop that
\* runs forever) with a value in [0, witness.voters], and with 0 when
\* witness.voters is 0.
C32_ReturnsInRange ==
    [][ last'.op = "maximum_compact_len" =>
          /\ last'.ok
          /\ last'.len \in 0..last'.args[2].voters
          /\ (last'.args[2].voters = 0 => last'.len = 0) ]_vars

\* C33: the solution the miner returns (after reduction and trimming to the
\* weight limit, whatever the trimming removes) passes feasibility_check
\* against the snapshot, and with an open unsigned phase and no queued
\* solution it passes the checks of submit_unsigned, which then installs
\* it as the queued solution.
C33_MinedIsFeasible ==
    [][ (last'.op = "mine_and_submit" /\ last'.ok) =>
          LET mined == workers'.run[last'.args[2]].call.solution
          IN /\ feasibility_check(mined, "Unsigned", snapshot').ok
             /\ (queued_solution' = None =>
                   unsigned_pre_dispatch_checks(phase', queued_solution', mined) = "") ]_vars

\* Two consecutive comparisons under the same threshold.
ScoreStep == last.op = "is_score_better" /\ last'.op = "is_score_better"

\* C34 (as claimed): is_better is antisymmetric and transitive: never both
\* is_better(a, b, t) and is_better(b, a, t) for a # b, and is_better(a, b, t)
\* with is_better(b, c, t) gives is_better(a, c, t).
C34_AntisymmetricTransitive ==
    [][ ScoreStep =>
          /\ (/\ last'.args = <<last.args[2], last.args[1]>>
              /\ last.args[1] # last.args[2]) => ~(last.ok /\ last'.ok)
          /\ (last'.args[1] = last.args[2] /\ last.ok /\ last'.ok) =>
                is_score_better(last.args[1], last'.args[2], improvement_threshold)
      ]_vars

\* C34 (amended): is_better is transitive, and is_better(a, b, t) together
\* with is_better(b, a, t) leaves a and b equal in the primary element (they
\* may differ in the other two).
C34_TransitivePrimary ==
    [][ ScoreStep =>
          /\ (/\ last'.args = <<last.args[2], last.args[1]>>
              /\ last.ok /\ last'.ok) => last.args[1][1] = last.args[2][1]
          /\ (last'.args[1] = last.args[2] /\ last.ok /\ last'.ok) =>
                is_score_better(last.args[1], last'.args[2], improvement_threshold)
      ]_vars

\* A comparison that holds under a positive threshold and fails the other
\* way round, next to u128::MAX where the margin saturates.
C34_Witness ==
    /\ last.op = "is_score_better"
    /\ last.ok
    /\ improvement_threshold > 0
    /\ last.args[1][1] = U128Max
    /\ last.args[2][1] = U128Max - 1
    /\ ~is_score_better(last.args[2], last.args[1], improvement_threshold)

\* The error the claimed order gives for a solution against a snapshot:
\* the set of admissible answers ("" for Ok) of the first failing step.
ClaimedFeasibility(solution, snap) ==
    LET compact == solution.compact
        pairs == 1..Len(compact)
        bad_target == \E i \in pairs : target_at(snap, compact[i].target) = None
        bad_voter == \E i \in pairs : voter_at(snap, compact[i].voter) = None
    IN IF Len(unique_targets(compact)) # snap.desired_targets THEN {"WrongWinnerCount"}
       ELSE IF bad_target \/ bad_voter
         THEN (IF bad_target THEN {"InvalidWinner"} ELSE {})
              \cup (IF bad_voter THEN {"InvalidVoter"} ELSE {})
       ELSE IF \E i \in pairs :
                  target_at(snap, compact[i].target)[1]
                      \notin approvals_of(snap, voter_at(snap, compact[i].voter)[1])[1]
         THEN {"InvalidVote"}
       ELSE LET idx == unique_targets(compact)
                winners == [i \in 1..Len(idx) |-> target_at(snap, idx[i])[1]]
            IN IF evaluate(to_supports(snap, compact, winners)) # solution.score
                 THEN {"InvalidScore"}
               ELSE {""}

\* C35: feasibility_check returns Ok iff every condition holds and otherwise
\* the error of the first failing step: WrongWinnerCount, then InvalidWinner
\* or InvalidVoter for a target or voter index outside the snapshot, then
\* InvalidVote, then InvalidScore; and it changes no storage.
C35_FirstFailingStep ==
    [][ (last'.op = "feasibility_check" /\ snapshot # None) =>
          /\ last'.err \in ClaimedFeasibility(last'.args[1], snapshot[1])
          /\ last'.ok <=> (last'.err = "")
          /\ UNCHANGED <<block, phase, round, snapshot, signed_submissions,
                         queued_solution, balances, events>> ]_vars

\* The stake of the snapshot voter a compact entry names.
TrimStake(e) == snapshot[1].voters[e.voter + 1].stake

\* C36: trim_compact(max, compact) returns the compact unchanged when its
\* voter count is at most max; otherwise it removes exactly voters_count -
\* max voters, those of least snapshot stake among the compact's voters:
\* every removed voter has a stake <= every retained voter's stake, and
\* the retained entries are the compact's own, unaltered and in their order.
C36_TrimsLeastStake ==
    [][ last'.op = "trim_compact" =>
          LET max == last'.args[1]
              compact == last'.args[2]
              trimmed == last'.compact
              retained == Range(trimmed)
              removed == Range(compact) \ retained
          IN /\ last'.ok
             /\ Len(compact) <= max => trimmed = compact
             /\ Len(compact) > max =>
                  /\ Len(trimmed) = max
                  /\ Cardinality(removed) = Len(compact) - max
                  /\ trimmed = SelectSeq(compact, LAMBDA e : e \in retained)
                  /\ \A e \in removed, f \in retained : TrimStake(e) <= TrimStake(f)
      ]_vars

\* A compact of three voters, listed from the heaviest to the lightest,
\* trimmed to one voter: the one kept has a greater stake than one removed.
C36_Witness ==
    /\ last.op = "trim_compact"
    /\ last.args[1] = 1
    /\ Len(last.args[2]) = 3
    /\ TrimStake(last.args[2][1]) > TrimStake(last.args[2][3])
    /\ Len(last.compact) = 1
    /\ last.compact[1] = last.args[2][1]

\* C37: once the phase is Unsigned, every later on_initialize leaves it as
\* it is (same open flag, same opening block) whatever remaining is, also
\* after the predicted election block has passed; only elect ends it.  And
\* the opening block of an unsigned phase is never after the current block.
C37_UnsignedPersists ==
    [][ /\ is_unsigned(phase) =>
            /\ OnInitializeStep => phase' = phase
            /\ phase' # phase => last'.op = "elect"
        /\ is_unsigned(phase') => phase'.at <= block' ]_vars

\* C37 witness: on_initialize has run two blocks after the unsigned phase
\* opened, with the predicted election block already behind it.
C37_Witness ==
    /\ phase = Unsigned(TRUE, 2)
    /\ block = 4
    /\ last.op = "on_initialize"
    /\ last.prediction = 3

\* C38: an unsigned submission whose round differs from the current round
\* is rejected: validate_unsigned does not admit it to the pool, and
\* submit_unsigned fails and leaves the queued solution as it was.
C38_WrongRoundRejected ==
    [][ /\ \A solution \in RoundSolutions(round) :
             (submit_unsigned(solution) /\ solution.round # round) =>
                ~last'.ok /\ queued_solution' = queued_solution
        /\ (/\ last'.op = "validate_unsigned"
            /\ last'.args[2].solution.round # round) => ~last'.ok ]_vars

\* C39: of two executions that race on the guard with blocks within
\* OFFCHAIN_REPEAT of each other (the same block included) at most one is
\* accepted, the other gets Err, and the stored head is the accepted block;
\* over every interleaving the stored head never decreases and any two
\* accepted blocks differ by more than OFFCHAIN_REPEAT.
C39_RaceAcceptsOne ==
    [][ /\ (last'.op = "set_check_offchain_execution_status" /\ last'.ok) =>
              /\ offchain_head' = Some(last'.args[1])
              /\ workers'.accepted = Append(workers.accepted, last'.args[1])
        /\ (last'.op = "set_check_offchain_execution_status" /\ ~last'.ok) =>
              /\ offchain_head' = offchain_head
              /\ workers'.accepted = workers.accepted
        /\ offchain_head # None =>
              offchain_head' # None /\ offchain_head'[1] >= offchain_head[1]
        /\ \A i \in 1..Len(workers'.accepted), j \in 1..Len(workers'.accepted) :
              i < j => workers'.accepted[j] > workers'.accepted[i] + OFFCHAIN_REPEAT
      ]_vars

\* C39 witness: two executions for the same block both read an empty head;
\* the first to write was accepted and the second failed to write.
C39_Witness ==
    /\ last.op = "set_check_offchain_execution_status"
    /\ ~last.ok /\ last.err = "failed to write to offchain db."
    /\ last.args = <<1, 2>>
    /\ workers.accepted = <<1>>
    /\ offchain_head = Some(1)

\* C40: when the worker runs on every block, the execution for the block
\* at which the unsigned phase opened with open = true, if the head it
\* read is not that of its own or of a later block, passes the re-run
\* guard, and it mines the solution it hands to the pool (unless the
\* election algorithm fails): a guard acceptance at an earlier block, when
\* the phase was not yet open, does not suppress it.
C40_WorkerMinesAtOpening ==
    [][ /\ (/\ last'.op = "set_check_offchain_execution_status"
            /\ is_unsigned_open_at(workers.run[last'.args[2]].phase, last'.args[1])
            /\ \/ workers.run[last'.args[2]].seen = None
               \/ workers.run[last'.args[2]].seen[1] < last'.args[1]) =>
              /\ last'.err \notin {"fork.", "recently executed."}
              /\ (offchain_head = workers.run[last'.args[2]].seen =>
                    last'.ok /\ offchain_head' = Some(last'.args[1]))
        /\ (/\ last'.op = "offchain_worker"
            /\ is_unsigned_open_at(workers.run[last'.args[2]].phase, last'.args[1])) =>
              last'.ok \/ last'.err = "NposElections" ]_vars

====
